---------------------------- MODULE Spec2Model ----------------------------
(***************************************************************************)
(* Model of the numeric core of the Ethiopia rooftop-PV assessment tool:   *)
(*   modules/financial.py      project_electricity_price,                  *)
(*                             financial_analysis,                         *)
(*                             estimate_consumption_and_capacity           *)
(*   modules/pv_calculator.py  get_solar_position,                         *)
(*                             calculate_pv_production                     *)
(*                                                                         *)
(* The Python code computes with binary floating point.  The model uses    *)
(* exact integer arithmetic on scaled quantities:                          *)
(*   tariff table entries        cents          (0.01 ETB)                 *)
(*   quarterly prices, base price mills         (0.001 ETB)                *)
(*   yearly price figures        quarter-mills  (0.00025 ETB), so that the *)
(*                               division by 4 of line 217 is exact        *)
(*   consumption                 1/2048 kWh     (every bisection midpoint  *)
(*                               of [0, 10000] is a multiple of it)        *)
(*   returned consumption, price exact fractions [num, den], den > 0       *)
(*   recommended capacity        0.01 kW                                   *)
(*   temperatures                milli-degrees Celsius                     *)
(*   wind speed                  tenths of m/s                             *)
(*   irradiance                  W/m2                                      *)
(*   roof area                   dm2 (0.01 m2); panel sides in dm          *)
(*   spacing factor              tenths; efficiency and losses in percent  *)
(*   system capacity             0.1 W; DC power W; AC power 0.01 W        *)
(* Compounding (x * 1.0123^n) is evaluated in fixed point, rounding down   *)
(* to a mill after every factor.                                           *)
(*                                                                         *)
(* Each function of the code is a component with its own variables and its *)
(* own specification (SpecTariff, SpecPayback, SpecFin, SpecEst,           *)
(* SpecEstimate, SpecPV); the components share nothing, as in the code.    *)
(* SpecSession runs the four functions one after another in one process.   *)
(* estimate_consumption_and_capacity is modelled twice: its bisection loop *)
(* step by step (SpecEst) and the whole call as one step (SpecEstimate).   *)
(***************************************************************************)
EXTENDS Integers, Sequences, FiniteSets, TLC

VARIABLES
    t_pc, t_args, t_out,                       \* project_electricity_price
    pb_pc, pb_investment, pb_savings, pb_i,    \* payback loop of financial_analysis
    cumulative_savings, payback_period,
    f_args, f_stack, f_calls, f_result,        \* financial_analysis call stack
    e_pc, monthly_bill, min_consumption,       \* estimate_consumption_and_capacity
    max_consumption, e_iter, estimated_consumption,   \* (its bisection loop)
    est_pc, est_args, est_out,                 \* (the whole call)
    pv_pc, pv_feed, pv_cols, pv_cfg, pv_in,    \* get_solar_position and
    pv_out,                                    \* calculate_pv_production
    pv_caller, pv_first, pv_surface,
    s_pc, s_frame, s_schedule, s_log           \* a sequence of calls

tariffVars  == <<t_pc, t_args, t_out>>
paybackVars == <<pb_pc, pb_investment, pb_savings, pb_i, cumulative_savings,
                 payback_period>>
finVars     == <<f_args, f_stack, f_calls, f_result>>
estVars     == <<e_pc, monthly_bill, min_consumption, max_consumption, e_iter,
                 estimated_consumption>>
estimateVars == <<est_pc, est_args, est_out>>
pvVars      == <<pv_pc, pv_feed, pv_cols, pv_cfg, pv_in, pv_out, pv_caller,
                 pv_first, pv_surface>>
sessionVars == <<s_pc, s_frame, s_schedule, s_log>>
vars        == <<tariffVars, paybackVars, finVars, estVars, estimateVars, pvVars,
                 sessionVars>>

\* What a step of one component leaves alone.
exceptTariff   == <<paybackVars, finVars, estVars, estimateVars, pvVars,
                   sessionVars>>
exceptPayback  == <<tariffVars, finVars, estVars, estimateVars, pvVars,
                   sessionVars>>
exceptFin      == <<tariffVars, paybackVars, estVars, estimateVars, pvVars,
                   sessionVars>>
exceptEst      == <<tariffVars, paybackVars, finVars, estimateVars, pvVars,
                   sessionVars>>
exceptEstimate == <<tariffVars, paybackVars, finVars, estVars, pvVars,
                   sessionVars>>
exceptPV       == <<tariffVars, paybackVars, finVars, estVars, estimateVars,
                   sessionVars>>
exceptSession  == <<tariffVars, paybackVars, finVars, estVars, estimateVars,
                   pvVars>>

-----------------------------------------------------------------------------
(* Generic helpers                                                         *)

RECURSIVE SumSeq(_)
SumSeq(s) == IF s = <<>> THEN 0 ELSE Head(s) + SumSeq(Tail(s))

Abs(x) == IF x < 0 THEN -x ELSE x

Min2(a, b) == IF a <= b THEN a ELSE b

Max2(a, b) == IF a >= b THEN a ELSE b

\* Division rounding toward zero, as int(a / b) of Python does (b # 0).
TruncDiv(a, b) ==
    LET q == Abs(a) \div Abs(b)
    IN  IF (a < 0) = (b < 0) THEN q ELSE -q

\* The value of a component's variables while that component is not running.
Idle == [pc |-> "idle"]

-----------------------------------------------------------------------------
(* project_electricity_price: the tariff schedule (financial.py 32-152)    *)

\* "base" of residential tier i, in cents.
TierBase(i) ==
    CASE i = 1 -> 27  [] i = 2 -> 77  [] i = 3 -> 163 [] i = 4 -> 200
      [] i = 5 -> 220 [] i = 6 -> 241 [] i = 7 -> 248

\* "increases" of residential tier i: the prices of 2024Q1 .. 2027Q4, in cents.
TierIncreases(i) ==
    CASE i = 1 -> <<35, 43, 52, 60, 68, 76, 84, 92,
                    100, 108, 116, 124, 132, 140, 148, 156>>
      [] i = 2 -> <<95, 113, 131, 149, 167, 185, 203, 221,
                    239, 257, 276, 294, 312, 330, 348, 366>>
      [] i = 3 -> <<189, 215, 241, 267, 293, 319, 345, 372,
                    398, 424, 450, 476, 502, 528, 555, 581>>
      [] i = 4 -> <<246, 292, 338, 384, 430, 476, 522, 568,
                    614, 660, 706, 752, 798, 844, 889, 935>>
      [] i = 5 -> <<266, 312, 357, 403, 449, 495, 541, 586,
                    632, 678, 724, 770, 815, 861, 907, 953>>
      [] i = 6 -> <<285, 329, 373, 417, 462, 506, 550, 594,
                    639, 683, 727, 771, 816, 860, 904, 948>>
      [] i = 7 -> <<292, 335, 379, 423, 466, 510, 554, 597,
                    641, 684, 728, 772, 815, 859, 903, 946>>

\* tariff_schedule["residential"]["increases"] as written in the literal
\* (lines 100-105): the tier-3 prices.
ResidentialDefaultIncreases ==
    <<189, 215, 241, 267, 293, 319, 345, 372,
      398, 424, 450, 476, 502, 528, 555, 581>>

\* The customer classes that are keys of tariff_schedule.
TariffClasses ==
    {"residential", "commercial", "industrial_lv", "industrial_mv",
     "industrial_hv", "street_light"}

\* tariff_schedule[c]["increases"] of the non-residential classes, in cents.
ClassIncreases(c) ==
    CASE c = "commercial" ->
            <<261, 309, 357, 405, 453, 501, 550, 598,
              646, 694, 742, 790, 839, 887, 935, 983>>
      [] c = "industrial_lv" ->
            <<176, 202, 229, 256, 282, 309, 336, 362,
              388, 415, 441, 468, 493, 520, 546, 573>>
      [] c \in {"industrial_mv", "industrial_hv"} ->
            <<139, 161, 183, 205, 227, 249, 271, 294,
              316, 338, 360, 382, 404, 426, 448, 470>>
      [] c = "street_light" ->
            <<35, 43, 52, 60, 68, 76, 84, 92,
              100, 108, 116, 124, 132, 140, 148, 156>>

\* A (year, quarter) key of an "increases" dictionary.
InSchedule(y, q) == y \in 2024..2027 /\ q \in 1..4

\* Position of the key (y, q) in the sequences above.
PeriodIndex(y, q) == (y - 2024) * 4 + q


-----------------------------------------------------------------------------
(* project_electricity_price: the computation (financial.py 154-224)       *)
(* base_price is <<>> for None and <<p>> for the price p, in mills.        *)

\* min(diffs) of line 161.
MinOf(s) == CHOOSE m \in {s[i] : i \in DOMAIN s} : \A i \in DOMAIN s : m <= s[i]

\* list.index(x): the first position holding x (1-based here).
RECURSIVE IndexFrom(_, _, _)
IndexFrom(s, x, i) == IF s[i] = x THEN i ELSE IndexFrom(s, x, i + 1)

\* A plausible slip: the last position holding x.
RECURSIVE LastIndexFrom(_, _, _)
LastIndexFrom(s, x, i) == IF s[i] = x THEN i ELSE LastIndexFrom(s, x, i - 1)

ClosestTierLastOnTie(p) ==
    LET diffs == [i \in 1..7 |-> Abs(p - TierBase(i) * 10)]
    IN  LastIndexFrom(diffs, MinOf(diffs), 7)

\* Lines 159-161: diffs over tier1..tier7 and closest_tier.
ClosestTier(p) ==
    LET diffs == [i \in 1..7 |-> Abs(p - TierBase(i) * 10)]
    IN  IndexFrom(diffs, MinOf(diffs), 1)

\* tariff_data["increases"] as the quarter loop sees it (lines 155-165, 172):
\* for residential with a base price > 0 the closest tier's increases
\* replace the default ones.
Increases(customer_type, base_price) ==
    IF customer_type = "residential"
    THEN IF base_price # <<>> /\ base_price[1] > 0
         THEN TierIncreases(ClosestTier(base_price[1]))
         ELSE ResidentialDefaultIncreases
    ELSE ClassIncreases(customer_type)

\* Line 181.
TargetQuarter(current_quarter, quarter) ==
    ((current_quarter - 1 + quarter) % 4) + 1

\* A plausible slip in line 182: <= instead of <.
TargetYearWrapLe(current_year, current_quarter, year, quarter) ==
    IF TargetQuarter(current_quarter, quarter) <= current_quarter
       /\ current_year + year = current_year
    THEN current_year + year + 1
    ELSE current_year + year

\* Lines 180, 182-183.
TargetYear(current_year, current_quarter, year, quarter) ==
    IF TargetQuarter(current_quarter, quarter) < current_quarter
       /\ current_year + year = current_year
    THEN current_year + year + 1
    ELSE current_year + year

\* One factor rate/10000 in fixed point (mills), and 4 and 16 of them.
Grow(price, rate) == (price * rate) \div 10000

Grow4(price, rate) == Grow(Grow(Grow(Grow(price, rate), rate), rate), rate)

Grow16(price, rate) == Grow4(Grow4(Grow4(Grow4(price, rate), rate), rate), rate)

\* price * (rate/10000)^n: n factors, one after the other; n may be negative.
\* (The test next = next only makes the evaluation of next eager.)
RECURSIVE Compound(_, _, _)
Compound(price, rate, n) ==
    IF n = 0 THEN price
    ELSE LET next == IF n >= 16 THEN Grow16(price, rate)
                     ELSE IF n > 0 THEN Grow(price, rate)
                     ELSE (price * 10000) \div rate
             left == IF n >= 16 THEN n - 16 ELSE IF n > 0 THEN n - 1 ELSE n + 1
         IN  IF next = next THEN Compound(next, rate, left) ELSE 0

\* A plausible slip in line 193: the last known quarter is not subtracted.
QuartersDiffNoQuarter(target_year, target_quarter) ==
    (target_year - 2027) * 4 + target_quarter

\* Lines 191-193.
QuartersDiff(target_year, target_quarter) ==
    (target_year - 2027) * 4 + (target_quarter - 4)

\* Lines 186-200: the price of one period, in mills.
PeriodPrice(increases, target_year, target_quarter) ==
    IF InSchedule(target_year, target_quarter)
    THEN increases[PeriodIndex(target_year, target_quarter)] * 10
    ELSE Compound(increases[PeriodIndex(2027, 4)] * 10, 10123,
                  QuartersDiff(target_year, target_quarter))

\* The period visited by iteration j (1-based) of the loops of lines 177-178:
\* year = (j-1) div 4 of range(years), quarter = ((j-1) mod 4) + 1 of range(1,5).
Period(current_year, current_quarter, j) ==
    LET year    == (j - 1) \div 4
        quarter == ((j - 1) % 4) + 1
    IN  <<TargetYear(current_year, current_quarter, year, quarter),
          TargetQuarter(current_quarter, quarter)>>

\* Lines 211-222: the yearly figures, in quarter-mills (4 * yearly_avg).
YearlyPrices(result, years) ==
    [i \in 1..years |->
        LET start_idx == (i - 1) * 4
            end_idx   == start_idx + 4
        IN  IF end_idx <= Len(result)
            THEN SumSeq(SubSeq(result, start_idx + 1, end_idx))
            ELSE (4 * SumSeq(SubSeq(result, start_idx + 1, Len(result))))
                     \div (Len(result) - start_idx)]

\* A plausible slip in lines 206-209: the increase is applied before the
\* price is appended.
UnknownClassPriceGrowFirst(base_price, j) == Compound(base_price, 10074, j)

\* Lines 205-209: the j-th price appended (1-based) is base_price after
\* j - 1 factors of 1.0074, in mills.
UnknownClassPrice(base_price, j) == Compound(base_price, 10074, j - 1)

\* The whole function.  The record also carries what the claims observe of
\* the run: the increases used and the periods visited.
ProjectElectricityPrice(a) ==
    IF a.customer_type \in TariffClasses
    THEN LET inc     == Increases(a.customer_type, a.base_price)
             periods == [j \in 1..(4 * a.years) |->
                            Period(a.current_year, a.current_quarter, j)]
             result  == [j \in 1..(4 * a.years) |->
                            PeriodPrice(inc, periods[j][1], periods[j][2])]
         IN  [raised |-> "none", increases |-> inc, periods |-> periods,
              result |-> result, yearly_prices |-> YearlyPrices(result, a.years)]
    ELSE IF a.base_price = <<>>
    THEN \* line 209: None *= 1.0074
         [raised |-> "TypeError", increases |-> <<>>, periods |-> <<>>,
          result |-> <<>>, yearly_prices |-> <<>>]
    ELSE LET result == [j \in 1..(4 * a.years) |->
                            UnknownClassPrice(a.base_price[1], j)]
         IN  [raised |-> "none", increases |-> <<>>, periods |-> <<>>,
              result |-> result, yearly_prices |-> YearlyPrices(result, a.years)]

(* Inputs of the tariff component *)

\* Largest number of years projected.
MaxYears == 3
\* Start years run from 2024 - PreYears to 2027 + PostYears.
PreYears == 1
PostYears == 1

\* Base prices in mills: every tier base, every midpoint between two
\* neighbouring tier bases (a tie), their neighbours, and values outside.
BasePrices ==
    LET marks == {270, 520, 770, 1200, 1630, 1815, 2000, 2100, 2200, 2305,
                  2410, 2445, 2480}
    IN  {m + d : m \in marks, d \in {-5, 0, 5}} \cup {-1000, 0, 6500}

TariffArgs ==
    [customer_type   : TariffClasses \cup {"other"},
     current_year    : (2024 - PreYears)..(2027 + PostYears),
     current_quarter : 1..4,
     base_price      : {<<>>} \cup {<<p>> : p \in BasePrices},
     years           : 1..MaxYears]

TariffIdle == t_pc = "idle" /\ t_args = Idle /\ t_out = Idle

InitTariff ==
    /\ t_pc = "called"
    /\ t_args \in TariffArgs
    /\ t_out = Idle

\* The call runs to its return (or to the exception).
ProjectReturn ==
    /\ t_pc = "called"
    /\ t_out' = ProjectElectricityPrice(t_args)
    /\ t_pc' = "returned"
    /\ UNCHANGED t_args
    /\ UNCHANGED exceptTariff

-----------------------------------------------------------------------------
(* financial_analysis: the payback loop (financial.py 291-299), one loop   *)
(* iteration per step.  Amounts are integers in one common money unit.     *)

\* A plausible slip in line 297: > instead of >=.
PaidBackStrict(cumulative, investment) == cumulative > investment

\* Line 297.
PaidBack(cumulative, investment) == cumulative >= investment

\* Lines 292-299 as a function: the loop from position i (0-based, as
\* enumerate counts) with the running sum so far.
RECURSIVE PaybackLoop(_, _, _, _)
PaybackLoop(savings, investment, i, cumulative) ==
    IF i >= Len(savings) THEN Len(savings)          \* payback_period = lifetime
    ELSE IF PaidBack(cumulative + savings[i + 1], investment) THEN i + 1
    ELSE PaybackLoop(savings, investment, i + 1, cumulative + savings[i + 1])

(* Inputs of the payback component *)

\* Longest lifetime (length of the savings series).
MaxLifetime == 5

SavingValues == {0, 200, 500, 1000}

InvestmentValues == {0, 1000, 1500}

RECURSIVE SeqsOfLen(_, _)
SeqsOfLen(S, n) ==
    IF n = 0 THEN {<<>>}
    ELSE {Append(s, x) : s \in SeqsOfLen(S, n - 1), x \in S}

PaybackIdle ==
    /\ pb_pc = "idle" /\ pb_investment = 0 /\ pb_savings = <<>> /\ pb_i = 0
    /\ cumulative_savings = 0 /\ payback_period = 0

\* Lines 292-293: the state before the first iteration.
InitPayback ==
    /\ pb_pc = "loop"
    /\ pb_investment \in InvestmentValues
    /\ \E n \in 1..MaxLifetime : pb_savings \in SeqsOfLen(SavingValues, n)
    /\ pb_i = 0
    /\ cumulative_savings = 0
    /\ payback_period = Len(pb_savings)

\* Lines 295-299: one iteration; it breaks out of the loop when paid back.
PaybackIter ==
    /\ pb_pc = "loop"
    /\ pb_i < Len(pb_savings)
    /\ cumulative_savings' = cumulative_savings + pb_savings[pb_i + 1]
    /\ IF PaidBack(cumulative_savings', pb_investment)
       THEN /\ payback_period' = pb_i + 1
            /\ pb_pc' = "done"
            /\ pb_i' = pb_i
       ELSE /\ pb_i' = pb_i + 1
            /\ UNCHANGED <<payback_period, pb_pc>>
    /\ UNCHANGED <<pb_investment, pb_savings>>
    /\ UNCHANGED exceptPayback

\* The series is exhausted: the loop ends with the default of line 293.
PaybackExhausted ==
    /\ pb_pc = "loop"
    /\ pb_i >= Len(pb_savings)
    /\ pb_pc' = "done"
    /\ UNCHANGED <<pb_investment, pb_savings, pb_i, cumulative_savings,
                   payback_period>>
    /\ UNCHANGED exceptPayback

-----------------------------------------------------------------------------
(* financial_analysis: the call and its scenario calls (226-374)           *)
(* Units of the arguments: cost_per_watt in 0.001 USD/W, electricity_price *)
(* in 0.0001 USD/kWh, the two rates in 0.0001, the conversion rate in      *)
(* ETB/USD.  yearly_savings and investment_scaled are USD amounts times    *)
(* 4000 * currency_conversion_rate, which keeps the division of line 278   *)
(* exact.                                                                  *)

\* Lines 262 and 269-275: the arguments of the call of
\* project_electricity_price.
ProjectionArgs(a) ==
    LET electricity_price_etb ==
            (a.electricity_price * a.currency_conversion_rate) \div 10
    IN  [customer_type   |-> a.customer_type,
         current_year    |-> a.current_year,
         current_quarter |-> a.current_quarter,
         base_price      |-> <<electricity_price_etb>>,
         years           |-> a.lifetime]

\* Lines 262-313 of one call, without the scenarios; proj is what
\* project_electricity_price returned.
FinBodyOf(a, proj) ==
    LET investment == a.system_capacity_kw * a.cost_per_watt
        scale == 4000 * a.currency_conversion_rate
        savings == [i \in 1..a.lifetime |->
                        a.annual_energy_kwh * proj.yearly_prices[i]]
    IN  [investment_usd       |-> investment,
         investment_scaled    |-> investment * scale,
         yearly_prices_etb    |-> proj.yearly_prices,
         yearly_savings       |-> savings,
         payback_period_years |-> PaybackLoop(savings, investment * scale, 0, 0)]

\* The same with the projection of lines 269-275.
FinBody(a) == FinBodyOf(a, ProjectElectricityPrice(ProjectionArgs(a)))

\* A plausible slip: the scenario call inherits the caller's flag.
ScenarioArgsInheritFlag(a, kind) ==
    LET up(x)   == (x * 11) \div 10
        down(x) == (x * 9) \div 10
    IN  IF kind = "optimistic"
        THEN [a EXCEPT !.cost_per_watt = down(@),
                       !.electricity_price = up(@),
                       !.annual_price_increase = (@ * 12) \div 10,
                       !.discount_rate = down(@),
                       !.lifetime = 25]
        ELSE [a EXCEPT !.cost_per_watt = up(@),
                       !.electricity_price = down(@),
                       !.annual_price_increase = (@ * 8) \div 10,
                       !.discount_rate = up(@),
                       !.lifetime = 25]

\* Lines 319-329 and 332-342: the arguments of a scenario call.  lifetime is
\* not passed on, so the callee runs with the default of line 228.
ScenarioArgs(a, kind) ==
    LET up(x)   == (x * 11) \div 10
        down(x) == (x * 9) \div 10
    IN  IF kind = "optimistic"
        THEN [a EXCEPT !.cost_per_watt = down(@),
                       !.electricity_price = up(@),
                       !.annual_price_increase = (@ * 12) \div 10,
                       !.discount_rate = down(@),
                       !.lifetime = 25,
                       !.create_scenarios = FALSE]
        ELSE [a EXCEPT !.cost_per_watt = up(@),
                       !.electricity_price = down(@),
                       !.annual_price_increase = (@ * 8) \div 10,
                       !.discount_rate = up(@),
                       !.lifetime = 25,
                       !.create_scenarios = FALSE]

\* The dictionary returned by line 374: the body's figures and 'scenarios'.
FinResult(frame) ==
    [investment_usd       |-> frame.body.investment_usd,
     investment_scaled    |-> frame.body.investment_scaled,
     yearly_prices_etb    |-> frame.body.yearly_prices_etb,
     yearly_savings       |-> frame.body.yearly_savings,
     payback_period_years |-> frame.body.payback_period_years,
     scenarios            |-> frame.scenarios]

\* A new activation of financial_analysis.
NewFrame(a) == [args |-> a, pc |-> "body", body |-> Idle, scenarios |-> <<>>]

\* scenarios[key] = result.
PutScenario(scenarios, key, result) ==
    [k \in DOMAIN scenarios \cup {key} |->
        IF k = key THEN result ELSE scenarios[k]]

Top == f_stack[Len(f_stack)]

SetTop(stack, frame) == [stack EXCEPT ![Len(stack)] = frame]

(* Inputs of the financial component *)

\* Longest lifetime a top-level call is given, the default apart.
MaxFinLifetime == 2

\* Line 228: lifetime=25, the default, which the application also passes.
DefaultLifetime == 25

FinArgs ==
    [system_capacity_kw       : {1, 2},
     annual_energy_kwh        : {0, 1000},
     cost_per_watt            : {1500},
     electricity_price        : {230, 500},
     customer_type            : {"residential", "commercial", "other"},
     current_year             : {2024, 2027},
     current_quarter          : {1, 3},
     annual_price_increase    : {300},
     lifetime                 : (1..MaxFinLifetime) \cup {DefaultLifetime},
     discount_rate            : {600},
     create_scenarios         : BOOLEAN,
     currency_conversion_rate : {100, 130}]

FinIdle == f_args = Idle /\ f_stack = <<>> /\ f_calls = 0 /\ f_result = Idle

\* The top-level call has been made: f_args are its arguments, f_calls
\* counts the activations of financial_analysis so far.
InitFin ==
    /\ f_args \in FinArgs
    /\ f_stack = <<NewFrame(f_args)>>
    /\ f_calls = 1
    /\ f_result = Idle

\* Lines 262-317: the body, then the test of create_scenarios.
FinComputeBody ==
    /\ f_stack # <<>>
    /\ Top.pc = "body"
    /\ f_stack' = SetTop(f_stack,
            [Top EXCEPT !.body = FinBody(Top.args),
                        !.pc = IF Top.args.create_scenarios
                               THEN "call_optimistic" ELSE "return"])
    /\ UNCHANGED <<f_args, f_calls, f_result>>
    /\ UNCHANGED exceptFin

\* Lines 319-329: the recursive call for the optimistic scenario.
FinCallOptimistic ==
    /\ f_stack # <<>>
    /\ Top.pc = "call_optimistic"
    /\ f_stack' = Append(SetTop(f_stack, [Top EXCEPT !.pc = "wait_optimistic"]),
                         NewFrame(ScenarioArgs(Top.args, "optimistic")))
    /\ f_calls' = f_calls + 1
    /\ UNCHANGED <<f_args, f_result>>
    /\ UNCHANGED exceptFin

\* Lines 332-342: the recursive call for the pessimistic scenario.
FinCallPessimistic ==
    /\ f_stack # <<>>
    /\ Top.pc = "call_pessimistic"
    /\ f_stack' = Append(SetTop(f_stack, [Top EXCEPT !.pc = "wait_pessimistic"]),
                         NewFrame(ScenarioArgs(Top.args, "pessimistic")))
    /\ f_calls' = f_calls + 1
    /\ UNCHANGED <<f_args, f_result>>
    /\ UNCHANGED exceptFin

\* Line 374 of a scenario call: the result goes into the caller's dictionary.
FinReturnToCaller ==
    /\ Len(f_stack) >= 2
    /\ Top.pc = "return"
    /\ LET caller == f_stack[Len(f_stack) - 1]
           rest   == SubSeq(f_stack, 1, Len(f_stack) - 1)
       IN  f_stack' = SetTop(rest,
               IF caller.pc = "wait_optimistic"
               THEN [caller EXCEPT
                        !.scenarios = PutScenario(@, "optimistic", FinResult(Top)),
                        !.pc = "call_pessimistic"]
               ELSE [caller EXCEPT
                        !.scenarios = PutScenario(@, "pessimistic", FinResult(Top)),
                        !.pc = "return"])
    /\ UNCHANGED <<f_args, f_calls, f_result>>
    /\ UNCHANGED exceptFin

\* Line 374 of the top-level call.
FinReturnTop ==
    /\ Len(f_stack) = 1
    /\ Top.pc = "return"
    /\ f_result' = FinResult(Top)
    /\ f_stack' = <<>>
    /\ UNCHANGED <<f_args, f_calls>>
    /\ UNCHANGED exceptFin

-----------------------------------------------------------------------------
(* estimate_consumption_and_capacity: the residential branch with no known *)
(* price (financial.py 493-535), one loop iteration per step.              *)
(* monthly_bill is in cents; consumptions are in 1/2048 kWh.  A computed   *)
(* bill is the exact number (units + frac/2048) * 0.0001 ETB, kept as the  *)
(* record [units, frac] with 0 <= frac < 2048.                             *)

\* tariff_data["residential"]["phases"][0] (lines 405-413): min and max in
\* kWh, price in cents; the max of the last bracket is float('inf').
Brackets ==
    <<[min |-> 0,   max |-> <<50>>,  price |-> 27],
      [min |-> 50,  max |-> <<100>>, price |-> 77],
      [min |-> 100, max |-> <<200>>, price |-> 163],
      [min |-> 200, max |-> <<300>>, price |-> 200],
      [min |-> 300, max |-> <<400>>, price |-> 220],
      [min |-> 400, max |-> <<500>>, price |-> 241],
      [min |-> 500, max |-> <<>>,    price |-> 248]>>

\* Lines 503-513: the bracket loop from bracket k on.  The charge so far is
\* whole + part/2048 cents.
RECURSIVE BracketCharges(_, _, _, _)
BracketCharges(remaining, k, whole, part) ==
    IF k > Len(Brackets) \/ remaining <= 0
    THEN [whole |-> whole, part |-> part]
    ELSE LET b     == Brackets[k]
             units == IF b.max = <<>>
                      THEN remaining
                      ELSE Min2(remaining, (b.max[1] - b.min) * 2048)
         IN  BracketCharges(remaining - units, k + 1,
                            whole + (units \div 2048) * b.price,
                            part + (units % 2048) * b.price)

\* Lines 498-519: the bracket charges, plus the fixed charge of 10 ETB,
\* times 1.15.
calculate_bill(consumption) ==
    LET c == BracketCharges(consumption, 1, 0, 0)
    IN  [units |-> (c.whole + 1000) * 115 + (c.part * 115) \div 2048,
         frac  |-> (c.part * 115) % 2048]

\* Line 526: calculated_bill < monthly_bill.
BillBelow(calculated_bill, bill) == calculated_bill.units < bill * 100

\* A plausible slip in line 523: half the width instead of the midpoint.
MidHalfWidth(lo, hi) == (hi - lo) \div 2

\* Lines 523, 531.
Mid(lo, hi) == (lo + hi) \div 2

\* A plausible slip in line 522: a tolerance of 2 kWh.
LoopContinuesWide(lo, hi) == hi - lo > 2 * 2048

\* Line 522: max_consumption - min_consumption > 1.
LoopContinues(lo, hi) == hi - lo > 2048

(* Inputs of the estimator component *)

\* Bills 9.97 ETB apart from -30 ETB on, and bills 700.01 ETB apart.
MaxFineBill == 120
MaxCoarseBill == 43

\* calculate_bill(10000 kWh) = 28112.90 ETB and calculate_bill(0) = 11.50 ETB.
Bills ==
    {1150, 10000, 2811290}
        \cup {997 * k - 3000 : k \in 0..MaxFineBill}
        \cup {70001 * k : k \in 0..MaxCoarseBill}

EstIdle ==
    /\ e_pc = "idle" /\ monthly_bill = 0 /\ min_consumption = 0
    /\ max_consumption = 0 /\ e_iter = 0 /\ estimated_consumption = 0

\* Lines 495-496: the state before the first iteration.
InitEst ==
    /\ e_pc = "bisect"
    /\ monthly_bill \in Bills
    /\ min_consumption = 0
    /\ max_consumption = 10000 * 2048
    /\ e_iter = 0
    /\ estimated_consumption = 0

\* Lines 522-529: one iteration of the bisection.
BisectStep ==
    /\ e_pc = "bisect"
    /\ LoopContinues(min_consumption, max_consumption)
    /\ LET mid == Mid(min_consumption, max_consumption)
       IN  IF BillBelow(calculate_bill(mid), monthly_bill)
           THEN min_consumption' = mid /\ UNCHANGED max_consumption
           ELSE max_consumption' = mid /\ UNCHANGED min_consumption
    /\ e_iter' = e_iter + 1
    /\ UNCHANGED <<e_pc, monthly_bill, estimated_consumption>>
    /\ UNCHANGED exceptEst

\* Lines 531-545: the loop has ended; the estimate is the midpoint, replaced
\* by the residential default of 250 kWh when it is not positive.
BisectExit ==
    /\ e_pc = "bisect"
    /\ ~LoopContinues(min_consumption, max_consumption)
    /\ LET estimate == Mid(min_consumption, max_consumption)
       IN  estimated_consumption' =
               IF estimate <= 0 THEN 250 * 2048 ELSE estimate
    /\ e_pc' = "done"
    /\ UNCHANGED <<monthly_bill, min_consumption, max_consumption, e_iter>>
    /\ UNCHANGED exceptEst

-----------------------------------------------------------------------------
(* estimate_consumption_and_capacity: the whole call (financial.py         *)
(* 376-589).  monthly_bill and the prices are in cents, peak_demand_kw in  *)
(* kW; electricity_price and peak_demand_kw are <<>> for None and <<x>>    *)
(* for a value.  Consumptions and the average price are exact fractions.   *)

Frac(n, d) == [num |-> n, den |-> d]

\* The keys of tariff_data (lines 402-444).
EstimatorClasses ==
    {"residential", "commercial", "industrial_lv", "industrial_mv",
     "industrial_hv", "street_light"}

\* Lines 450-451: an unknown class is treated as residential.
EffectiveClass(customer_type) ==
    IF customer_type \in EstimatorClasses THEN customer_type
    ELSE "residential"

\* tariff_brackets[0]['price'] (lines 406-441), in cents.
FirstBracketPrice(c) ==
    CASE c = "residential"   -> 27
      [] c = "commercial"    -> 212
      [] c = "industrial_lv" -> 153
      [] c = "industrial_mv" -> 119
      [] c = "industrial_hv" -> 119
      [] c = "street_light"  -> 212

\* Lines 425, 431, 437: the classes with a "demand_charge" entry, all named
\* "industrial...", and its rate of 53.58 ETB/kW in cents.
HasDemandCharge(c) == c \in {"industrial_lv", "industrial_mv", "industrial_hv"}

DemandChargeRate == 5358

\* Lines 537-545.
DefaultConsumption(c) ==
    CASE c = "residential"   -> 250
      [] c = "commercial"    -> 500
      [] c = "industrial_lv" -> 1000
      [] c = "industrial_mv" -> 5000
      [] c = "industrial_hv" -> 10000
      [] c = "street_light"  -> 300

\* A plausible slip in lines 460 and 475: the class is not looked at.
SubtractsDemandChargeAnyClass(c, peak_demand_kw) == peak_demand_kw # <<>>

\* Lines 460 and 475: "industrial" in customer_type and peak_demand_kw is
\* not None and "demand_charge" in tariff_data[customer_type].
SubtractsDemandCharge(c, peak_demand_kw) ==
    HasDemandCharge(c) /\ peak_demand_kw # <<>>

\* Lines 462-464 and 480-482: max(0, monthly_bill - demand_charge).
EnergyBill(bill, peak_demand_kw) ==
    Max2(0, bill - peak_demand_kw[1] * DemandChargeRate)

\* Lines 493-531: the bisection from the interval [lo, hi] on, in 1/2048 kWh.
RECURSIVE Bisect(_, _, _)
Bisect(bill, lo, hi) ==
    IF LoopContinues(lo, hi)
    THEN LET mid == Mid(lo, hi)
         IN  IF BillBelow(calculate_bill(mid), bill)
             THEN Bisect(bill, mid, hi)
             ELSE Bisect(bill, lo, mid)
    ELSE Mid(lo, hi)

\* Lines 457-532: the estimate and the average price of the branch taken.
BranchEstimate(c, a) ==
    IF a.electricity_price # <<>>
    THEN LET price == a.electricity_price[1]
             paid  == IF SubtractsDemandCharge(c, a.peak_demand_kw)
                      THEN EnergyBill(a.monthly_bill, a.peak_demand_kw)
                      ELSE a.monthly_bill
         IN  [estimated_consumption |->
                  IF price > 0 THEN Frac(paid, price) ELSE Frac(0, 1),
              avg_price |-> Frac(price, 1)]
    ELSE IF SubtractsDemandCharge(c, a.peak_demand_kw)
    THEN LET energy_bill == EnergyBill(a.monthly_bill, a.peak_demand_kw)
         IN  [estimated_consumption |->
                  IF energy_bill > 0 /\ FirstBracketPrice(c) > 0
                  THEN Frac(energy_bill, FirstBracketPrice(c))
                  ELSE Frac(0, 1),
              avg_price |-> Frac(FirstBracketPrice(c), 1)]
    ELSE IF c # "residential"
    THEN [estimated_consumption |->
              IF FirstBracketPrice(c) > 0
              THEN Frac(a.monthly_bill, FirstBracketPrice(c))
              ELSE Frac(0, 1),
          avg_price |-> Frac(FirstBracketPrice(c), 1)]
    ELSE LET estimate == Bisect(a.monthly_bill, 0, 10000 * 2048)
         IN  [estimated_consumption |-> Frac(estimate, 2048),
              avg_price |->
                  IF estimate > 0 THEN Frac(a.monthly_bill * 2048, estimate)
                  ELSE Frac(FirstBracketPrice(c), 1)]

\* A plausible slip in line 535: < instead of <=.
NeedsDefaultNegativeOnly(estimate) == estimate.num < 0

\* A plausible slip in line 535: the default for every estimate up to 1 kWh.
NeedsDefaultBelowOne(estimate) == estimate.num <= estimate.den

\* Line 535: estimated_consumption <= 0.
NeedsDefault(estimate) == estimate.num <= 0

\* A plausible slip in line 579: the half-kW count is rounded down.
RoundDown(p, q) == p \div q

\* round() of line 579 for p/q >= 0: to the nearest integer, a tie to the
\* even one.
RoundHalfEven(p, q) ==
    LET f == p \div q
        r == p - f * q
    IN  IF 2 * r < q THEN f
        ELSE IF 2 * r > q THEN f + 1
        ELSE IF f % 2 = 0 THEN f ELSE f + 1

\* Lines 558-573 for a consumption num/den: twice the average of the two
\* heuristics, 2 * (d / (0.165 * 24) + d / (4.5 * 0.86)) / 2 with
\* d = 0.8 * consumption / 30, is 58 * num / (4257 * den).
TwiceAverageCapacity(consumption) ==
    Frac(58 * consumption.num, 4257 * consumption.den)

\* Line 579: max(1.0, round(2 * average) / 2), in 0.01 kW.
RecommendedCapacity(consumption) ==
    LET twice == TwiceAverageCapacity(consumption)
    IN  Max2(100, RoundHalfEven(twice.num, twice.den) * 50)

\* Lines 449-589: the dictionary returned, and the estimate before the
\* default of lines 534-549.
EstimateConsumptionAndCapacity(a) ==
    LET c       == EffectiveClass(a.customer_type)
        branch  == BranchEstimate(c, a)
        default == NeedsDefault(branch.estimated_consumption)
        final   == IF default THEN Frac(DefaultConsumption(c), 1)
                   ELSE branch.estimated_consumption
        price   == IF default /\ branch.avg_price.num <= 0
                   THEN Frac(FirstBracketPrice(c), 1)
                   ELSE branch.avg_price
    IN  [before_default                    |-> branch.estimated_consumption,
         estimated_monthly_consumption_kwh |-> final,
         estimated_yearly_consumption_kwh  |-> Frac(final.num * 12, final.den),
         average_electricity_price_etb     |-> price,
         recommended_capacity_kw           |-> RecommendedCapacity(final),
         expected_coverage_percent         |-> 80]

(* Inputs of the whole call *)

\* Lines 453-455 pick phase min(phase, 0) of the tariff: phase 0 for every
\* phase >= 0.
EstimateArgs ==
    [monthly_bill      : {-5000, 0, 1150, 10000, 53580, 60000, 250000, 1000000},
     customer_type     : EstimatorClasses \cup {"other"},
     electricity_price : {<<>>, <<-100>>, <<0>>, <<212>>, <<1000>>},
     phase             : {0, 1},
     peak_demand_kw    : {<<>>, <<10>>}]

EstimateIdle == est_pc = "idle" /\ est_args = Idle /\ est_out = Idle

InitEstimate ==
    /\ est_pc = "called"
    /\ est_args \in EstimateArgs
    /\ est_out = Idle

\* The call runs to its return.
EstimateReturn ==
    /\ est_pc = "called"
    /\ est_out' = EstimateConsumptionAndCapacity(est_args)
    /\ est_pc' = "returned"
    /\ UNCHANGED est_args
    /\ UNCHANGED exceptEstimate

-----------------------------------------------------------------------------
(* calculate_pv_production: wind floor and cell temperature (pv_calculator *)
(* 196-255).  An hour is [poa_global, temperature, wind_speed]: the        *)
(* plane-of-array irradiance pvlib returned (W/m2), the ambient            *)
(* temperature (milli-degrees C) and the wind speed (tenths of m/s).       *)

\* A plausible slip in line 198: the floor only for a negative minimum.
WindSpeedUsedNegativeOnly(hours) ==
    IF \E h \in DOMAIN hours : hours[h].wind_speed < 0
    THEN [h \in DOMAIN hours |-> Max2(hours[h].wind_speed, 5)]
    ELSE [h \in DOMAIN hours |-> hours[h].wind_speed]

\* Lines 197-201: the floor of 0.5 m/s, applied when the minimum is <= 0.
WindSpeedUsed(hours) ==
    IF \E h \in DOMAIN hours : hours[h].wind_speed <= 0
    THEN [h \in DOMAIN hours |-> Max2(hours[h].wind_speed, 5)]
    ELSE [h \in DOMAIN hours |-> hours[h].wind_speed]

\* exp(a + b * wind) with a = -3.56, b = -0.075 (lines 237-238), in 1e-6,
\* for the wind speeds the model feeds.
SapmExp(wind) ==
    CASE wind = 0  -> 28439
      [] wind = 2  -> 28015
      [] wind = 5  -> 27392
      [] wind = 10 -> 26384
      [] wind = 50 -> 19546

\* pvlib.temperature.sapm_cell as called in lines 232-240:
\* poa * exp(a + b*wind) + temp_air + poa/1000 * deltaT, deltaT = 3.
SapmCell(poa, temp, wind) ==
    temp + (poa * SapmExp(wind)) \div 1000 + poa * 3

\* A plausible slip in line 249: the limit of the clip (85) as threshold.
UseFallbackAt85(cell) ==
    \/ \E h \in DOMAIN cell : cell[h] > 85000
    \/ \E h \in DOMAIN cell : cell[h] < -20000

\* Lines 243-249: temp_max > 100 or temp_min < -20.
UseFallback(cell) ==
    \/ \E h \in DOMAIN cell : cell[h] > 100000
    \/ \E h \in DOMAIN cell : cell[h] < -20000

\* A plausible slip in line 253: no clip.
FallbackCellNoClip(poa, temp) == temp + poa * 25

\* Lines 252-253: temp + poa_global * 0.025, clipped to [-20, 85].
FallbackCell(poa, temp) == Max2(-20000, Min2(85000, temp + poa * 25))

\* Lines 196-255 for the whole series.
CellTemperatures(hours) ==
    LET wind    == WindSpeedUsed(hours)
        primary == [h \in DOMAIN hours |->
                       SapmCell(hours[h].poa_global, hours[h].temperature, wind[h])]
        fall    == UseFallback(primary)
    IN  [wind_speed       |-> wind,
         primary          |-> primary,
         fallback         |-> fall,
         cell_temperature |->
             IF fall
             THEN [h \in DOMAIN hours |->
                      FallbackCell(hours[h].poa_global, hours[h].temperature)]
             ELSE primary]

(* get_solar_position (pv_calculator 72-110).  A feed is the weather     *)
(* frame of get_weather_data: the columns it carries and its rows.  The    *)
(* zenith of a row is the angle pvlib computed for its timestamp, and      *)
(* poa_global the plane-of-array irradiance pvlib later returns for it.    *)

\* cos(radians(zenith)) in 1e-3 for the zenith angles of the feeds.
CosMilli(zenith) ==
    CASE zenith = 0   -> 1000
      [] zenith = 60  -> 500
      [] zenith = 90  -> 0
      [] zenith = 120 -> -500

\* A plausible slip in line 86: no clip.
SolarGhiNoClip(direct, diffuse, zenith) ==
    (direct * CosMilli(zenith)) \div 1000 + diffuse

\* Lines 84-86: influx_direct * cos(zenith) + influx_diffuse, clipped at 0.
SolarGhi(direct, diffuse, zenith) ==
    Max2(0, (direct * CosMilli(zenith)) \div 1000 + diffuse)

\* The columns of pvlib.solarposition.get_solarposition (line 81).
SolarPositionColumns ==
    {"apparent_zenith", "zenith", "apparent_elevation", "elevation",
     "azimuth", "equation_of_time"}

\* Line 103: the mean temperature is above 100, so the column is in Kelvin.
LikelyKelvin(feed) ==
    /\ "temperature" \in feed.columns
    /\ SumSeq([h \in DOMAIN feed.rows |-> feed.rows[h].temperature])
           > 100000 * Len(feed.rows)

\* Lines 83-110: the frame get_solar_position returns.
SolarFrame(feed) ==
    [columns |-> feed.columns \cup {"ghi", "dni", "dhi", "wind_speed"}
                     \cup SolarPositionColumns,
     rows |->
        [h \in DOMAIN feed.rows |->
            LET row == feed.rows[h]
            IN  [ghi |-> SolarGhi(row.influx_direct, row.influx_diffuse,
                                  row.zenith),
                 dni |-> IF "dni" \in feed.columns THEN row.dni
                         ELSE Max2(0, row.influx_direct),
                 dhi |-> IF "dhi" \in feed.columns THEN row.dhi
                         ELSE Max2(0, row.influx_diffuse),
                 wind_speed  |-> IF "wind_speed" \in feed.columns
                                 THEN row.wind_speed ELSE 0,
                 temperature |-> IF LikelyKelvin(feed)
                                 THEN row.temperature - 273150
                                 ELSE row.temperature,
                 poa_global  |-> row.poa_global]]]

\* The value of a column of the frame handed to get_solar_position; a
\* latitude column holds the same value in every row.
FeedCell(feed, h, col) ==
    CASE col = "influx_direct"  -> feed.rows[h].influx_direct
      [] col = "influx_diffuse" -> feed.rows[h].influx_diffuse
      [] col = "dni"            -> feed.rows[h].dni
      [] col = "dhi"            -> feed.rows[h].dhi
      [] col = "wind_speed"     -> feed.rows[h].wind_speed
      [] col = "temperature"    -> feed.rows[h].temperature
      [] col = "latitude"       -> feed.first.latitude
      [] col = "lat"            -> feed.first.lat

\* The frame object the caller passes as weather_df: its columns and, per
\* row, the value of each column.
FrameOfFeed(feed) ==
    [columns |-> feed.columns,
     rows    |-> [h \in DOMAIN feed.rows |->
                     [col \in feed.columns |-> FeedCell(feed, h, col)]]]

\* The columns lines 85-98 assign.
AssignedColumns == {"ghi", "dni", "dhi", "wind_speed"}

\* Lines 85-106 assign to weather_df itself: the frame after them.
FrameAssigned(feed) ==
    LET cols == feed.columns \cup AssignedColumns
        new  == SolarFrame(feed).rows
    IN  [columns |-> cols,
         rows    |-> [h \in DOMAIN feed.rows |->
                         [col \in cols |->
                             CASE col = "ghi"         -> new[h].ghi
                               [] col = "dni"         -> new[h].dni
                               [] col = "dhi"         -> new[h].dhi
                               [] col = "wind_speed"  -> new[h].wind_speed
                               [] col = "temperature" -> new[h].temperature
                               [] OTHER -> FeedCell(feed, h, col)]]]

\* Lines 76-77 rebind weather_df to a new frame only when the index is not
\* a DatetimeIndex; otherwise the assignments of lines 85-106 act on the
\* caller's object.
CallerFrameAfter(feed) ==
    IF feed.datetime_index THEN FrameAssigned(feed) ELSE FrameOfFeed(feed)

-----------------------------------------------------------------------------
(* calculate_pv_production: the column check, the sizing, the DC and AC    *)
(* power and the aggregation (pv_calculator 115-309).                      *)

NoError == [error |-> "none"]

\* Lines 122-133: the columns the diagnostic prints read, in order.
DiagnosticColumns == <<"temperature", "ghi", "dni", "dhi", "zenith">>

\* Lines 137-148.
RequiredColumns(cols) ==
    <<"ghi", "dni", "dhi", "temperature", "wind_speed",
      IF "apparent_zenith" \in cols THEN "apparent_zenith" ELSE "zenith",
      IF "azimuth" \in cols THEN "azimuth" ELSE "solar_azimuth">>

\* Index of the first name of the list that is no column of the frame, or 0.
RECURSIVE FirstMissing(_, _, _)
FirstMissing(names, cols, i) ==
    IF i > Len(names) THEN 0
    ELSE IF names[i] \notin cols THEN i
    ELSE FirstMissing(names, cols, i + 1)

\* Lines 120-152: the exception the frame raises, if any.  Reading a column
\* the frame lacks (lines 122-133) raises pandas' KeyError before the check
\* of lines 150-152 is reached.
ColumnError(cols) ==
    LET d == FirstMissing(DiagnosticColumns, cols, 1)
        r == FirstMissing(RequiredColumns(cols), cols, 1)
    IN  IF d > 0
        THEN [error |-> "KeyError", message |-> DiagnosticColumns[d],
              column |-> DiagnosticColumns[d]]
        ELSE IF r > 0
        THEN [error |-> "ValueError", message |-> "Missing required column: ",
              column |-> RequiredColumns(cols)[r]]
        ELSE NoError

\* Lines 158-162: the latitude read from the frame (its first row), 0 when
\* the frame has neither a 'latitude' nor a 'lat' column.
FrameLatitude(cols, first) ==
    IF "latitude" \in cols THEN first.latitude
    ELSE IF "lat" \in cols THEN first.lat
    ELSE 0

\* Lines 164-167: tilt and azimuth handed to get_total_irradiance (lines
\* 213-214), in degrees; <<>> is None.
SurfaceOrientation(cols, first, cfg) ==
    LET latitude == FrameLatitude(cols, first)
    IN  [tilt    |-> IF cfg.tilt = <<>> THEN Abs(latitude) ELSE cfg.tilt[1],
         azimuth |-> IF cfg.azimuth = <<>>
                     THEN (IF latitude >= 0 THEN 180 ELSE 0)
                     ELSE cfg.azimuth[1]]

\* Line 173, in dm2.
PanelArea(cfg) == cfg.panel_width * cfg.panel_height

\* A plausible slip in lines 174-175: the spacing is forgotten.
NumPanelsNoSpacing(cfg) == TruncDiv(cfg.roof_area, PanelArea(cfg))

\* Lines 174-175: int(roof_area / (panel_area * (1 + spacing_factor))).
NumPanels(cfg) ==
    TruncDiv(cfg.roof_area * 10, PanelArea(cfg) * (10 + cfg.spacing_factor))

\* Lines 178-184: num_panels * panel_area * 1000 * efficiency / 1000 kW,
\* in 0.1 W.
SystemCapacity(cfg) == NumPanels(cfg) * PanelArea(cfg) * cfg.efficiency

\* Lines 192-194: the irradiance handed to the plane-of-array model.
PoaInputs(hours) ==
    [h \in DOMAIN hours |->
        [ghi |-> Max2(hours[h].ghi, 0),
         dni |-> Max2(hours[h].dni, 0),
         dhi |-> Max2(hours[h].dhi, 0)]]

\* pvlib.pvsystem.pvwatts_dc as called in lines 259-266:
\* g * 0.001 * pdc0 * (1 + gamma_pdc * (cell - 25)), gamma_pdc = -0.004;
\* pdc0 and the result in W.
PvwattsDc(g, cell, pdc0) ==
    (((g * (1000000 - 4 * (cell - 25000))) \div 1000000) * pdc0) \div 1000

\* A plausible slip in lines 273-275: no clip.
ClampDcNone(dc) == dc

\* Lines 269-275: negative DC power is clipped to zero.
ClampDc(dc) ==
    IF \E h \in DOMAIN dc : dc[h] < 0
    THEN [h \in DOMAIN dc |-> Max2(dc[h], 0)]
    ELSE dc

\* The calendar month of each timestamp of the frame's index: the first
\* hour is the last of its month.
MonthOf(h) == IF h = 1 THEN 1 ELSE 2

\* Line 285: the sum of every month.
MonthlyEnergy(energy) ==
    [m \in {MonthOf(h) : h \in DOMAIN energy} |->
        SumSeq([h \in DOMAIN energy |->
                   IF MonthOf(h) = m THEN energy[h] ELSE 0])]

\* Lines 172-309 for a frame that passed the column check.  The record
\* carries the returned dictionary and the intermediate series.
PvProduction(hours, cfg) ==
    LET ct       == CellTemperatures(hours)
        capacity == SystemCapacity(cfg)
        model    == [h \in DOMAIN hours |->
                       PvwattsDc(Max2(hours[h].poa_global, 0),
                                 ct.cell_temperature[h], capacity \div 10)]
        dc       == ClampDc(model)
        ac       == [h \in DOMAIN hours |-> dc[h] * (100 - cfg.system_losses)]
        annual   == SumSeq(ac)
    IN  [poa_inputs         |-> PoaInputs(hours),
         wind_speed         |-> ct.wind_speed,
         primary            |-> ct.primary,
         fallback           |-> ct.fallback,
         cell_temperature   |-> ct.cell_temperature,
         dc_model           |-> model,
         dc_power           |-> dc,
         system_capacity_kw |-> capacity,
         num_panels         |-> NumPanels(cfg),
         annual_energy_kwh  |-> annual,
         monthly_energy_kwh |-> MonthlyEnergy(ac),
         avg_daily_production_kwh |-> TruncDiv(annual, 365),
         capacity_factor    |->
             IF capacity = 0 THEN [nan |-> TRUE, percent |-> 0]
             ELSE [nan |-> FALSE,
                   percent |-> TruncDiv(annual * 10, capacity * Len(hours))],
         hourly_ac_power    |-> ac]

(* Inputs of the PV component *)

\* Number of hours of the weather series.
NumHours == 2

\* The rows of a frame handed to calculate_pv_production directly: weather
\* of every kind ...
HourValues ==
    {[poa_global |-> p, temperature |-> t, wind_speed |-> w,
      ghi |-> p, dni |-> p, dhi |-> 0] :
        p \in {0, 1000},
        t \in {-30000, -10000, 25000, 60000, 75000, 290000},
        w \in {-10, 0, 2, 10}}

\* ... and irradiance columns of every sign.
IrradianceHourValues ==
    {[poa_global |-> 1000, temperature |-> 25000, wind_speed |-> 10,
      ghi |-> g, dni |-> n, dhi |-> d] :
        g \in {-50, 0, 800}, n \in {-50, 0, 800}, d \in {-50, 0, 800}}

DefaultHours ==
    [h \in 1..NumHours |->
        [poa_global |-> 1000, temperature |-> 25000, wind_speed |-> 10,
         ghi |-> 1000, dni |-> 1000, dhi |-> 0]]

\* The columns a frame handed to calculate_pv_production may carry.
FrameColumns ==
    {"ghi", "dni", "dhi", "temperature", "wind_speed", "zenith",
     "apparent_zenith", "azimuth", "solar_azimuth"}

\* Line 115-117: the defaults, with a roof of 10 m2.
DefaultConfig ==
    [roof_area |-> 1000, efficiency |-> 20, system_losses |-> 14,
     panel_width |-> 17, panel_height |-> 10, spacing_factor |-> 2,
     tilt |-> <<>>, azimuth |-> <<>>]

PvConfigs ==
    [roof_area      : {-1000, 0, 150, 204, 1000, 10000, 100000},
     efficiency     : {20},
     system_losses  : {0, 14, 100, 150},
     panel_width    : {17},
     panel_height   : {10},
     spacing_factor : {0, 2},
     tilt           : {<<>>},
     azimuth        : {<<>>}]

\* The defaults with tilt and azimuth supplied or not.
OrientationConfigs ==
    {[DefaultConfig EXCEPT !.tilt = t, !.azimuth = z] :
        t \in {<<>>, <<30>>}, z \in {<<>>, <<90>>}}

\* The first-row values of the columns 'latitude' and 'lat' (read only when
\* the frame has the column).
NoLatitudeValues == [latitude |-> 0, lat |-> 0]

LatitudeValues == [latitude : {-9, 9}, lat : {-9, 9}]

LatitudeColumns == {"latitude", "lat"}

\* The feeds handed to get_solar_position: influx_direct and influx_diffuse
\* are always there, the other columns may be missing (their row values are
\* then not read).
FeedRows ==
    [influx_direct  : {-100, 800},
     influx_diffuse : {-50, 100},
     zenith         : {60, 120},
     dni            : {-30},
     dhi            : {-30},
     wind_speed     : {10},
     temperature    : {25000, 298150},
     poa_global     : {1000}]

\* A feed also carries the latitude argument of get_solar_position (lat, in
\* degrees) and whether the index of the frame is a DatetimeIndex, as the
\* frame of get_weather_data has (line 56).
Feeds ==
    {[columns |-> {"influx_direct", "influx_diffuse"} \cup c, rows |-> r,
      lat |-> 9, datetime_index |-> TRUE, first |-> NoLatitudeValues] :
        c \in SUBSET {"dni", "dhi", "wind_speed", "temperature"},
        r \in [1..NumHours -> FeedRows]}

\* Every hour 800 W/m2 direct, 100 W/m2 diffuse, 298.15 K.
SiteFeedRows ==
    [h \in 1..NumHours |->
        [influx_direct |-> 800, influx_diffuse |-> 100, zenith |-> 60,
         dni |-> -30, dhi |-> -30, wind_speed |-> 10,
         temperature |-> 298150, poa_global |-> 1000]]

\* Feeds of sites north of, on and south of the equator, whose frame may
\* carry latitude columns and an index of either kind.
SiteFeeds ==
    {[columns |-> {"influx_direct", "influx_diffuse", "temperature"} \cup c,
      rows |-> SiteFeedRows, lat |-> l, datetime_index |-> d, first |-> f] :
        c \in SUBSET LatitudeColumns, l \in {-9, 0, 9}, d \in BOOLEAN,
        f \in LatitudeValues}

PvIdle ==
    /\ pv_pc = "idle"
    /\ pv_feed = Idle
    /\ pv_cols = {}
    /\ pv_cfg = Idle
    /\ pv_in = <<>>
    /\ pv_out = Idle
    /\ pv_caller = Idle
    /\ pv_first = Idle
    /\ pv_surface = Idle

\* Either calculate_pv_production is called on a frame, or get_solar_position
\* is called on a feed and calculate_pv_production on its result (app.py
\* 746-760).
InitPV ==
    /\ pv_out = Idle
    /\ pv_surface = Idle
    /\ \/ /\ pv_pc = "called"
          /\ pv_feed = Idle
          /\ pv_caller = Idle
          /\ \/ /\ pv_in \in [1..NumHours -> HourValues]
                /\ pv_cols = FrameColumns
                /\ pv_first = NoLatitudeValues
                /\ pv_cfg = DefaultConfig
             \/ /\ pv_in \in [1..NumHours -> IrradianceHourValues]
                /\ pv_cols = FrameColumns
                /\ pv_first = NoLatitudeValues
                /\ pv_cfg = DefaultConfig
             \/ /\ pv_in = DefaultHours
                /\ pv_cols = FrameColumns
                /\ pv_first = NoLatitudeValues
                /\ pv_cfg \in PvConfigs
             \/ /\ pv_in = DefaultHours
                /\ pv_cols \in SUBSET FrameColumns
                /\ pv_first = NoLatitudeValues
                /\ pv_cfg = DefaultConfig
             \/ /\ pv_in = DefaultHours
                /\ \E c \in SUBSET LatitudeColumns :
                      pv_cols = FrameColumns \cup c
                /\ pv_first \in LatitudeValues
                /\ pv_cfg \in OrientationConfigs
       \/ /\ pv_pc = "feed"
          /\ \/ pv_feed \in Feeds /\ pv_cfg = DefaultConfig
             \/ pv_feed \in SiteFeeds /\ pv_cfg \in OrientationConfigs
          /\ pv_caller = FrameOfFeed(pv_feed)
          /\ pv_first = pv_feed.first
          /\ pv_cols = {}
          /\ pv_in = <<>>

\* get_solar_position runs to its return; its frame is handed on.
GetSolarPosition ==
    /\ pv_pc = "feed"
    /\ pv_in' = SolarFrame(pv_feed).rows
    /\ pv_cols' = SolarFrame(pv_feed).columns
    /\ pv_caller' = CallerFrameAfter(pv_feed)
    /\ pv_pc' = "called"
    /\ UNCHANGED <<pv_feed, pv_cfg, pv_out, pv_first, pv_surface>>
    /\ UNCHANGED exceptPV

\* The call runs to its return.
CalculatePvProduction ==
    /\ pv_pc = "called"
    /\ ColumnError(pv_cols) = NoError
    /\ pv_out' = PvProduction(pv_in, pv_cfg)
    /\ pv_surface' = SurfaceOrientation(pv_cols, pv_first, pv_cfg)
    /\ pv_pc' = "returned"
    /\ UNCHANGED <<pv_feed, pv_cols, pv_cfg, pv_in, pv_caller, pv_first>>
    /\ UNCHANGED exceptPV

\* The call raises on a column the frame lacks.
CalculatePvRaises ==
    /\ pv_pc = "called"
    /\ ColumnError(pv_cols) # NoError
    /\ pv_out' = ColumnError(pv_cols)
    /\ pv_pc' = "raised"
    /\ UNCHANGED <<pv_feed, pv_cols, pv_cfg, pv_in, pv_caller, pv_first,
                   pv_surface>>
    /\ UNCHANGED exceptPV

-----------------------------------------------------------------------------
(* A session: the four functions called one after another in one process,  *)
(* as the application does on every run.  s_schedule is the value of       *)
(* tariff_schedule["residential"]["increases"] in the latest activation of *)
(* project_electricity_price, s_frame the weather frame the caller holds,  *)
(* s_log the calls that have returned, each with its arguments and result. *)

\* A plausible slip: the schedule is kept at module level, so an activation
\* sees what the previous one left.
ScheduleKept(previous) == previous

\* Lines 32-152: tariff_schedule is a local name bound to a new literal at
\* every entry, whatever an earlier activation stored.
ScheduleAtEntry(previous) == ResidentialDefaultIncreases

\* Lines 154-165: the value after the tier selection.
ScheduleAfterSelection(schedule, a) ==
    IF /\ a.customer_type = "residential"
       /\ a.base_price # <<>>
       /\ a.base_price[1] > 0
    THEN TierIncreases(ClosestTier(a.base_price[1]))
    ELSE schedule

\* Lines 154-224 run on a dictionary whose residential increases are
\* `schedule` at entry.
ProjectFrom(schedule, a) ==
    IF a.customer_type = "residential"
    THEN LET inc     == ScheduleAfterSelection(schedule, a)
             periods == [j \in 1..(4 * a.years) |->
                            Period(a.current_year, a.current_quarter, j)]
             result  == [j \in 1..(4 * a.years) |->
                            PeriodPrice(inc, periods[j][1], periods[j][2])]
         IN  [raised |-> "none", increases |-> inc, periods |-> periods,
              result |-> result, yearly_prices |-> YearlyPrices(result, a.years)]
    ELSE ProjectElectricityPrice(a)

\* financial_analysis (lines 262-374) with its calls of
\* project_electricity_price made in order: its own, then those of the
\* optimistic and of the pessimistic scenario.  The record holds the
\* returned dictionary and the schedule of the last activation.
FinancialAnalysisFrom(schedule, a) ==
    LET frame(args, body, scenarios) ==
            [args |-> args, pc |-> "return", body |-> body,
             scenarios |-> scenarios]
        e0   == ScheduleAtEntry(schedule)
        base == FinBodyOf(a, ProjectFrom(e0, ProjectionArgs(a)))
        s1   == ScheduleAfterSelection(e0, ProjectionArgs(a))
        ao   == ScenarioArgs(a, "optimistic")
        e1   == ScheduleAtEntry(s1)
        opt  == FinBodyOf(ao, ProjectFrom(e1, ProjectionArgs(ao)))
        s2   == ScheduleAfterSelection(e1, ProjectionArgs(ao))
        ap   == ScenarioArgs(a, "pessimistic")
        e2   == ScheduleAtEntry(s2)
        pess == FinBodyOf(ap, ProjectFrom(e2, ProjectionArgs(ap)))
        s3   == ScheduleAfterSelection(e2, ProjectionArgs(ap))
    IN  IF a.create_scenarios
        THEN [result |->
                 FinResult(frame(a, base,
                     [optimistic  |-> FinResult(frame(ao, opt, <<>>)),
                      pessimistic |-> FinResult(frame(ap, pess, <<>>))])),
              schedule |-> s3]
        ELSE [result |-> FinResult(frame(a, base, <<>>)), schedule |-> s1]

\* calculate_pv_production (lines 115-309) on a frame: the exception of the
\* column check or the production.  No line assigns to the frame.
PvCall(frame, cfg) ==
    IF ColumnError(frame.columns) # NoError
    THEN ColumnError(frame.columns)
    ELSE PvProduction(frame.rows, cfg)

(* Inputs of a session *)

\* Largest number of calls of a session.
MaxCalls == 4

\* Residential at the base of tier 7 and without a base price.
SessionProjectArgs ==
    {[customer_type |-> "residential", current_year |-> 2024,
      current_quarter |-> 1, base_price |-> b, years |-> 1] :
        b \in {<<>>, <<2480>>}}

SessionEstimateArgs ==
    {[monthly_bill |-> 10000, customer_type |-> "residential",
      electricity_price |-> <<>>, phase |-> 0, peak_demand_kw |-> <<>>]}

\* A residential analysis at 0.023 USD/kWh: its own projection and those of
\* its scenarios select tiers 5, 7 and 4.
SessionFinArgs ==
    {[system_capacity_kw |-> 1, annual_energy_kwh |-> 1000,
      cost_per_watt |-> 1500, electricity_price |-> 230,
      customer_type |-> "residential", current_year |-> 2024,
      current_quarter |-> 1, annual_price_increase |-> 300, lifetime |-> 1,
      discount_rate |-> 600, create_scenarios |-> TRUE,
      currency_conversion_rate |-> 100]}

SessionConfigs == {DefaultConfig, [DefaultConfig EXCEPT !.roof_area = 10000]}

\* A frame with every column, and one without wind_speed.
SessionFrames ==
    {[columns |-> c, rows |-> DefaultHours] :
        c \in {FrameColumns, FrameColumns \ {"wind_speed"}}}

SessionIdle ==
    /\ s_pc = "idle"
    /\ s_frame = Idle
    /\ s_schedule = Idle
    /\ s_log = <<>>

\* The process has started: no call yet; the caller holds a weather frame.
InitSession ==
    /\ s_pc = "running"
    /\ s_frame \in SessionFrames
    /\ s_schedule = ResidentialDefaultIncreases
    /\ s_log = <<>>

Returned(fn, args, out) == [fn |-> fn, args |-> args, out |-> out]

\* One call of project_electricity_price, entry to return.
CallProjectElectricityPrice ==
    /\ s_pc = "running"
    /\ Len(s_log) < MaxCalls
    /\ \E a \in SessionProjectArgs :
          /\ s_schedule' = ScheduleAfterSelection(ScheduleAtEntry(s_schedule), a)
          /\ s_log' = Append(s_log,
                  Returned("project_electricity_price", a,
                           ProjectFrom(ScheduleAtEntry(s_schedule), a)))
    /\ UNCHANGED <<s_pc, s_frame>>
    /\ UNCHANGED exceptSession

\* One call of estimate_consumption_and_capacity; its tariff_data (lines
\* 402-444) is a local literal that is only read.
CallEstimateConsumptionAndCapacity ==
    /\ s_pc = "running"
    /\ Len(s_log) < MaxCalls
    /\ \E a \in SessionEstimateArgs :
          s_log' = Append(s_log,
                  Returned("estimate_consumption_and_capacity", a,
                           EstimateConsumptionAndCapacity(a)))
    /\ UNCHANGED <<s_pc, s_frame, s_schedule>>
    /\ UNCHANGED exceptSession

\* One call of financial_analysis, its scenario calls included.
CallFinancialAnalysis ==
    /\ s_pc = "running"
    /\ Len(s_log) < MaxCalls
    /\ \E a \in SessionFinArgs :
          LET returned == FinancialAnalysisFrom(s_schedule, a)
          IN  /\ s_schedule' = returned.schedule
              /\ s_log' = Append(s_log,
                      Returned("financial_analysis", a, returned.result))
    /\ UNCHANGED <<s_pc, s_frame>>
    /\ UNCHANGED exceptSession

\* One call of calculate_pv_production on the caller's frame.
CallCalculatePvProduction ==
    /\ s_pc = "running"
    /\ Len(s_log) < MaxCalls
    /\ \E cfg \in SessionConfigs :
          s_log' = Append(s_log,
                  Returned("calculate_pv_production", cfg,
                           PvCall(s_frame, cfg)))
    /\ UNCHANGED <<s_pc, s_frame, s_schedule>>
    /\ UNCHANGED exceptSession

-----------------------------------------------------------------------------
(* Specifications: one per component; the other components stay idle.      *)

TariffInit ==
    InitTariff /\ PaybackIdle /\ FinIdle /\ EstIdle /\ EstimateIdle /\ PvIdle /\ SessionIdle

NextTariff == ProjectReturn

SpecTariff == TariffInit /\ [][NextTariff]_vars

PaybackInit ==
    TariffIdle /\ InitPayback /\ FinIdle /\ EstIdle /\ EstimateIdle /\ PvIdle /\ SessionIdle

NextPayback == PaybackIter \/ PaybackExhausted

SpecPayback == PaybackInit /\ [][NextPayback]_vars

\* The loop is straight-line sequential code: it keeps running.
SpecPaybackFair == SpecPayback /\ WF_vars(NextPayback)

FinInit ==
    TariffIdle /\ PaybackIdle /\ InitFin /\ EstIdle /\ EstimateIdle /\ PvIdle /\ SessionIdle

NextFin ==
    \/ FinComputeBody
    \/ FinCallOptimistic
    \/ FinCallPessimistic
    \/ FinReturnToCaller
    \/ FinReturnTop

SpecFin == FinInit /\ [][NextFin]_vars

EstInit ==
    TariffIdle /\ PaybackIdle /\ FinIdle /\ InitEst /\ EstimateIdle /\ PvIdle /\ SessionIdle

NextEst == BisectStep \/ BisectExit

SpecEst == EstInit /\ [][NextEst]_vars

\* The loop is straight-line sequential code: it keeps running.
SpecEstFair == SpecEst /\ WF_vars(NextEst)

EstimateInit ==
    TariffIdle /\ PaybackIdle /\ FinIdle /\ EstIdle /\ InitEstimate /\ PvIdle /\ SessionIdle

NextEstimate == EstimateReturn

SpecEstimate == EstimateInit /\ [][NextEstimate]_vars

PvInit ==
    TariffIdle /\ PaybackIdle /\ FinIdle /\ EstIdle /\ EstimateIdle /\ InitPV /\ SessionIdle

NextPV == GetSolarPosition \/ CalculatePvProduction \/ CalculatePvRaises

SpecPV == PvInit /\ [][NextPV]_vars

SessionInit ==
    /\ TariffIdle /\ PaybackIdle /\ FinIdle /\ EstIdle /\ EstimateIdle
    /\ PvIdle /\ InitSession

NextSession ==
    \/ CallProjectElectricityPrice
    \/ CallEstimateConsumptionAndCapacity
    \/ CallFinancialAnalysis
    \/ CallCalculatePvProduction

SpecSession == SessionInit /\ [][NextSession]_vars

\* The program as a whole: one of the functions is called.
Init ==
    \/ TariffInit \/ PaybackInit \/ FinInit \/ EstInit \/ EstimateInit
    \/ PvInit \/ SessionInit

Next ==
    \/ NextTariff \/ NextPayback \/ NextFin \/ NextEst \/ NextEstimate
    \/ NextPV \/ NextSession

Spec == Init /\ [][Next]_vars

-----------------------------------------------------------------------------
(* Properties of the payback loop                                          *)

\* savings[0] + ... + savings[n-1].
PrefixSum(savings, n) == SumSeq(SubSeq(savings, 1, n))

\* The years within the lifetime at which the cumulative savings have
\* reached the investment.
PaidBackYears ==
    {n \in 1..Len(pb_savings) : PrefixSum(pb_savings, n) >= pb_investment}

PaybackState ==
    /\ pb_pc \in {"loop", "done"}
    /\ pb_i \in 0..Len(pb_savings)
    /\ pb_pc = "done" =>
        /\ payback_period =
              IF PaidBackYears = {} THEN Len(pb_savings)
              ELSE CHOOSE n \in PaidBackYears : \A m \in PaidBackYears : n <= m
        /\ (pb_investment = 1000 /\ Len(pb_savings) >= 5
                /\ \A y \in DOMAIN pb_savings : pb_savings[y] = 200)
              => payback_period = 5
        /\ (pb_investment = 1000
                /\ \A y \in DOMAIN pb_savings : pb_savings[y] = 0)
              => payback_period = Len(pb_savings)

\* C1: payback_period_years is the smallest 1-based year n whose cumulative
\* savings savings[0]+...+savings[n-1] reach the investment, and the lifetime
\* when no year within the lifetime does; the loop always finishes.  With an
\* investment of 1000, savings of 200 a year give 5 and savings of 0 a year
\* give the lifetime.
C1_PaybackFirstYear == [](PaybackState) /\ <>(pb_pc = "done")

\* C1 witness: the loop has ended for investment 1000 and five savings of 200.
C1_Witness ==
    /\ pb_pc = "done"
    /\ pb_investment = 1000
    /\ pb_savings = <<200, 200, 200, 200, 200>>
    /\ payback_period = 5

-----------------------------------------------------------------------------
(* Properties of the scenario recursion                                    *)

\* The top-level call has returned.
FinReturned == f_stack = <<>> /\ f_calls > 0

ScenarioNesting ==
    /\ Len(f_stack) <= 2
    /\ f_calls <= 3
    /\ \A d \in 2..Len(f_stack) : ~f_stack[d].args.create_scenarios
    /\ FinReturned =>
          IF f_args.create_scenarios
          THEN /\ f_calls = 3
               /\ DOMAIN f_result.scenarios = {"optimistic", "pessimistic"}
               /\ \A k \in DOMAIN f_result.scenarios :
                      DOMAIN f_result.scenarios[k].scenarios = {}
          ELSE /\ f_calls = 1
               /\ DOMAIN f_result.scenarios = {}

\* The steps an activation and the calls it has yet to make still take.
FrameSteps(frame) ==
    CASE frame.pc = "body"             ->
            IF frame.args.create_scenarios THEN 8 ELSE 2
      [] frame.pc = "call_optimistic"  -> 7
      [] frame.pc = "wait_optimistic"  -> 4
      [] frame.pc = "call_pessimistic" -> 4
      [] frame.pc = "wait_pessimistic" -> 1
      [] frame.pc = "return"           -> 1

\* The steps left until the top-level call returns.
FinStepsLeft == SumSeq([d \in 1..Len(f_stack) |-> FrameSteps(f_stack[d])])

\* A call that has not returned can take a step: the innermost activation
\* is at a statement, and only callers wait.
FinCanStep ==
    f_stack # <<>> =>
        /\ Top.pc \in {"body", "call_optimistic", "call_pessimistic", "return"}
        /\ \A d \in 1..(Len(f_stack) - 1) :
               f_stack[d].pc \in {"wait_optimistic", "wait_pessimistic"}

\* C2: a top-level call with create_scenarios = true ends after exactly three
\* analyses (base, optimistic, pessimistic); each scenario analysis runs with
\* create_scenarios = false and returns an empty 'scenarios' map; the call
\* depth never exceeds 2.  With create_scenarios = false one analysis runs
\* and 'scenarios' is empty.  Termination: a call that has not returned can
\* always step, and every step lowers the number of steps left.
C2_ScenariosOneLevel ==
    /\ [](ScenarioNesting /\ FinCanStep)
    /\ [][FinStepsLeft' < FinStepsLeft]_finVars

\* C2 witness: a call with create_scenarios = true has returned both scenarios.
C2_Witness ==
    /\ FinReturned
    /\ f_args.create_scenarios
    /\ f_calls = 3
    /\ DOMAIN f_result.scenarios = {"optimistic", "pessimistic"}

-----------------------------------------------------------------------------
(* Properties of project_electricity_price                                 *)

\* The call has returned for a customer class of the tariff table.
TariffReturned == t_pc = "returned" /\ t_args.customer_type \in TariffClasses

\* The calendar quarter n quarters after (y, q).
QuarterAfter(y, q, n) ==
    LET idx == y * 4 + (q - 1) + n
    IN  <<idx \div 4, (idx % 4) + 1>>

\* The four consecutive calendar quarters that begin 4*k quarters after the
\* start point.
YearBlock(k) ==
    {QuarterAfter(t_args.current_year, t_args.current_quarter, 4 * k + m) :
        m \in 0..3}

\* C3: for a class of the tariff table the function returns `years` yearly
\* figures, and figure k (0-based) is the mean of the prices of the four
\* consecutive calendar quarters that begin 4*k quarters after the start
\* (Y, q): the walk visits exactly these quarters for figure k, so no quarter
\* is skipped and none is used for two figures.
C3_WalksQuarterByQuarter ==
    TariffReturned =>
        /\ Len(t_out.yearly_prices) = t_args.years
        /\ \A k \in 0..(t_args.years - 1) :
              /\ {t_out.periods[4 * k + m] : m \in 1..4} = YearBlock(k)
              /\ t_out.yearly_prices[k + 1] =
                    SumSeq([m \in 1..4 |->
                        LET p == QuarterAfter(t_args.current_year,
                                              t_args.current_quarter,
                                              4 * k + m - 1)
                        IN  PeriodPrice(t_out.increases, p[1], p[2])])

\* C4: for a class of the tariff table and a start (Y, 1) with Y in
\* 2024..2027, yearly figure k (for Y + k <= 2027) is the mean of the four
\* tabulated prices of calendar year Y + k in the schedule used; residential
\* with base price 1.63 from (2024, 1) for one year gives 2.28 (9120
\* quarter-mills).
C4_CalendarYearMean ==
    TariffReturned =>
        /\ (t_args.current_quarter = 1 /\ t_args.current_year \in 2024..2027) =>
              \A k \in 0..(t_args.years - 1) :
                  t_args.current_year + k <= 2027 =>
                      t_out.yearly_prices[k + 1] =
                          SumSeq([q \in 1..4 |->
                              10 * t_out.increases[
                                  PeriodIndex(t_args.current_year + k, q)]])
        /\ (t_args.customer_type = "residential" /\ t_args.base_price = <<1630>>
                /\ t_args.current_year = 2024 /\ t_args.current_quarter = 1
                /\ t_args.years = 1)
              => t_out.yearly_prices = <<9120>>

\* C4 witness: the residential projection of the example has returned 2.28.
C4_Witness ==
    /\ TariffReturned
    /\ t_args = [customer_type |-> "residential", current_year |-> 2024,
                 current_quarter |-> 1, base_price |-> <<1630>>, years |-> 1]
    /\ t_out.yearly_prices = <<9120>>

\* The number of quarters from 2027Q4 to (y, q).
QuartersSince2027Q4(y, q) == (4 * y + q) - (4 * 2027 + 4)

\* C5: the price used for a period within 2024Q1..2027Q4 is the tabulated
\* price of the schedule; for a period after 2027Q4 it is the 2027Q4 price
\* times 1.0123^n, n >= 1 being the number of quarters since 2027Q4, and so
\* never below the 2027Q4 price.
C5_TabulatedThenCompounded ==
    TariffReturned =>
        \A j \in DOMAIN t_out.periods :
            LET y    == t_out.periods[j][1]
                q    == t_out.periods[j][2]
                last == 10 * t_out.increases[16]
                n    == QuartersSince2027Q4(y, q)
            IN  /\ (n <= 0 /\ n > -16) =>
                      t_out.result[j] = 10 * t_out.increases[16 + n]
                /\ n > 0 =>
                      /\ t_out.result[j] = Compound(last, 10123, n)
                      /\ t_out.result[j] >= last
                /\ (y = 2028 /\ q = 1) => t_out.result[j] = (last * 10123) \div 10000

\* C5 witness: a projection that used 2028Q1 (one quarter after 2027Q4) and a
\* tabulated quarter.
C5_Witness ==
    /\ TariffReturned
    /\ \E j \in DOMAIN t_out.periods :
          /\ t_out.periods[j] = <<2028, 1>>
          /\ t_out.result[j] > 10 * t_out.increases[16]
    /\ \E j \in DOMAIN t_out.periods :
          /\ t_out.periods[j] = <<2027, 4>>
          /\ t_out.result[j] = 10 * t_out.increases[16]

\* The tiers whose base price is closest to p (mills).
NearestTiers(p) ==
    {i \in 1..7 : \A j \in 1..7 :
        Abs(p - 10 * TierBase(i)) <= Abs(p - 10 * TierBase(j))}

\* C6: for residential and a base price > 0 the schedule used is that of the
\* tier minimising |base_price - tier base| over (0.27, 0.77, 1.63, 2.00,
\* 2.20, 2.41, 2.48), the lowest-numbered one on a tie; with base_price
\* absent or <= 0 it is the tier-3 schedule.
C6_ClosestTierSchedule ==
    (t_pc = "returned" /\ t_args.customer_type = "residential") =>
        IF t_args.base_price # <<>> /\ t_args.base_price[1] > 0
        THEN \E i \in NearestTiers(t_args.base_price[1]) :
                /\ \A j \in NearestTiers(t_args.base_price[1]) : i <= j
                /\ t_out.increases = TierIncreases(i)
        ELSE t_out.increases = TierIncreases(3)

\* C6 witness: a base price of 0.52, halfway between tier 1 and tier 2, has
\* been given the tier-1 schedule.
C6_Witness ==
    /\ t_pc = "returned"
    /\ t_args.customer_type = "residential"
    /\ t_args.base_price = <<520>>
    /\ NearestTiers(520) = {1, 2}
    /\ t_out.increases = TierIncreases(1)

-----------------------------------------------------------------------------
(* Properties of the residential bisection                                 *)

\* |calculated - bill| <= 1 ETB, for a computed bill [units, frac] (0.0001
\* ETB) and a bill in cents.
WithinOneBirr(calculated, bill) ==
    /\ calculated.units >= bill * 100 - 10000
    /\ \/ calculated.units < bill * 100 + 10000
       \/ calculated.units = bill * 100 + 10000 /\ calculated.frac = 0

\* The bill lies between the forward bills at 0 kWh and at 10000 kWh.
BillInRange(bill) ==
    /\ calculate_bill(0) = [units |-> 115000, frac |-> 0]
    /\ calculate_bill(0).units <= bill * 100
    /\ bill * 100 <= calculate_bill(10000 * 2048).units

\* C7: for a residential customer with no known price and a monthly bill B
\* between calculate_bill(0) = 11.5 ETB and calculate_bill(10000), the
\* returned consumption c has |calculate_bill(c) - B| <= 1 ETB, where
\* calculate_bill adds the bracket charges of the 7 tiers and the 10 ETB
\* fixed charge and multiplies by 1.15; in particular for B = 100.
C7_BillRoundTrip ==
    (e_pc = "done" /\ BillInRange(monthly_bill)) =>
        WithinOneBirr(calculate_bill(estimated_consumption), monthly_bill)

\* C7 witness: the estimate for a bill of 100 ETB, between 115 and 116 kWh.
C7_Witness ==
    /\ e_pc = "done"
    /\ monthly_bill = 10000
    /\ BillInRange(monthly_bill)
    /\ estimated_consumption > 115 * 2048
    /\ estimated_consumption < 116 * 2048

RECURSIVE Pow2(_)
Pow2(n) == IF n = 0 THEN 1 ELSE 2 * Pow2(n - 1)

BisectionState ==
    e_pc \in {"bisect", "done"} =>
        /\ 0 <= min_consumption
        /\ min_consumption < max_consumption
        /\ max_consumption <= 10000 * 2048
        /\ e_iter <= 14
        /\ (max_consumption - min_consumption) * Pow2(e_iter) = 10000 * 2048
        /\ e_pc = "done" =>
              /\ e_iter = 14
              /\ max_consumption - min_consumption <= 2048
              /\ 2 * estimated_consumption = min_consumption + max_consumption

\* C8: the bisection loop ends for every monthly bill (also bills <= 0 and
\* bills above calculate_bill(10000)): at every iteration
\* 0 <= min_consumption < max_consumption <= 10000, the width halves with
\* every iteration, the loop exits after 14 iterations with a width <= 1 kWh,
\* and the estimate is the midpoint of the final interval.
C8_BisectionTerminates == [](BisectionState) /\ <>(e_pc = "done")

\* C8 witness: the loop has ended after 14 iterations for a bill <= 0, and
\* for that bill the upper bound came down every time.
C8_Witness ==
    /\ e_pc = "done"
    /\ monthly_bill <= 0
    /\ e_iter = 14
    /\ min_consumption = 0
    /\ max_consumption = 1250

-----------------------------------------------------------------------------
(* Properties of the cell temperature                                      *)

PvReturned == pv_pc = "returned"

Plausible85(t) == t >= -20000 /\ t <= 85000

\* C9 as stated: every hour whose primary (SAPM) cell temperature lies
\* outside [-20, 85] C gets the linear fallback, and its final cell
\* temperature lies within [-20, 85] C.
C9_FallbackOutside85 ==
    PvReturned =>
        \A h \in DOMAIN pv_in :
            ~Plausible85(pv_out.primary[h]) =>
                /\ pv_out.fallback
                /\ pv_out.cell_temperature[h] =
                      FallbackCell(pv_in[h].poa_global, pv_in[h].temperature)
                /\ Plausible85(pv_out.cell_temperature[h])

\* C9 amended: every hour whose primary (SAPM) cell temperature is above
\* 100 C or below -20 C gets the linear fallback, and its final cell
\* temperature lies within [-20, 85] C.
C9_FallbackOutside100 ==
    PvReturned =>
        \A h \in DOMAIN pv_in :
            (pv_out.primary[h] > 100000 \/ pv_out.primary[h] < -20000) =>
                /\ pv_out.fallback
                /\ pv_out.cell_temperature[h] >= -20000
                /\ pv_out.cell_temperature[h] <= 85000

\* C9 witness: an hour with a primary temperature above 100 C whose linear
\* value (also above 85 C) was clipped to 85 C.
C9_Witness ==
    /\ PvReturned
    /\ \E h \in DOMAIN pv_in :
          /\ pv_out.primary[h] > 100000
          /\ pv_in[h].temperature + 25 * pv_in[h].poa_global > 85000
          /\ pv_out.fallback
          /\ pv_out.cell_temperature[h] = 85000

\* C10: the fallback is taken exactly when the maximum of the primary series
\* is > 100 C or its minimum is < -20 C; when taken, every hour (also the
\* hours with a plausible primary value) gets
\* clip(ambient + 0.025 * poa_global, -20, 85); when not taken, every hour
\* keeps its primary value.
C10_FallbackWholeSeries ==
    PvReturned =>
        /\ pv_out.fallback <=>
              \E h \in DOMAIN pv_in :
                  pv_out.primary[h] > 100000 \/ pv_out.primary[h] < -20000
        /\ pv_out.fallback =>
              \A h \in DOMAIN pv_in :
                  LET linear == pv_in[h].temperature + 25 * pv_in[h].poa_global
                  IN  pv_out.cell_temperature[h] =
                          IF linear < -20000 THEN -20000
                          ELSE IF linear > 85000 THEN 85000 ELSE linear
        /\ ~pv_out.fallback =>
              \A h \in DOMAIN pv_in :
                  pv_out.cell_temperature[h] = pv_out.primary[h]

\* C10 witness: the fallback was taken and replaced the plausible primary
\* value of another hour by a different linear value.
C10_Witness ==
    /\ PvReturned
    /\ pv_out.fallback
    /\ \E h \in DOMAIN pv_in :
          /\ pv_out.primary[h] <= 100000
          /\ pv_out.primary[h] >= -20000
          /\ pv_out.cell_temperature[h] # pv_out.primary[h]
          /\ pv_out.cell_temperature[h] =
                pv_in[h].temperature + 25 * pv_in[h].poa_global

-----------------------------------------------------------------------------
(* Properties of the wind floor, the power series, the sizing, the column  *)
(* check and the irradiance                                                *)

PvDone == pv_pc \in {"returned", "raised"}

FromFeed == pv_feed # Idle /\ pv_pc # "feed"

\* C11: for every hour whose input wind speed is <= 0, and for every hour of
\* a feed without a wind column (filled with 0 by get_solar_position), the
\* wind speed passed to the cell-temperature model is >= 0.5 m/s.
C11_WindFloor ==
    PvReturned =>
        /\ \A h \in DOMAIN pv_in :
              pv_in[h].wind_speed <= 0 => pv_out.wind_speed[h] >= 5
        /\ (FromFeed /\ "wind_speed" \notin pv_feed.columns) =>
              \A h \in DOMAIN pv_in : pv_out.wind_speed[h] >= 5

\* C11 witness: a feed without a wind column went through both functions and
\* its hours were computed with 0.5 m/s.
C11_Witness ==
    /\ PvReturned
    /\ FromFeed
    /\ "wind_speed" \notin pv_feed.columns
    /\ \A h \in DOMAIN pv_in :
          pv_in[h].wind_speed = 0 /\ pv_out.wind_speed[h] = 5

LossesInRange == pv_cfg.system_losses >= 0 /\ pv_cfg.system_losses <= 100

\* C12: after the clamp the DC power of every hour is >= 0 (a negative
\* output of the DC model is replaced by 0, any other is unchanged), and with
\* 0 <= system_losses <= 1 every hourly AC power, every monthly energy and
\* the annual energy of the result are >= 0.
C12_NonNegativePower ==
    PvReturned =>
        /\ \A h \in DOMAIN pv_in :
              /\ pv_out.dc_power[h] >= 0
              /\ pv_out.dc_power[h] =
                    IF pv_out.dc_model[h] < 0 THEN 0 ELSE pv_out.dc_model[h]
        /\ LossesInRange =>
              /\ \A h \in DOMAIN pv_in : pv_out.hourly_ac_power[h] >= 0
              /\ \A m \in DOMAIN pv_out.monthly_energy_kwh :
                    pv_out.monthly_energy_kwh[m] >= 0
              /\ pv_out.annual_energy_kwh >= 0

\* C12 witness: the DC model returned a negative power, which was clamped,
\* and the energies of the result are zero.
C12_Witness ==
    /\ PvReturned
    /\ LossesInRange
    /\ \E h \in DOMAIN pv_in :
          pv_out.dc_model[h] < 0 /\ pv_out.dc_power[h] = 0
    /\ pv_out.annual_energy_kwh = 0

\* C13: for roof_area > 0, panel sides > 0 and spacing_factor >= 0,
\* num_panels = floor(roof_area / (width * height * (1 + spacing_factor))),
\* system_capacity_kw = num_panels * width * height * efficiency, and a
\* 1.7 x 1.0 m panel with spacing 0.2 gives 4, 49 and 490 panels on 10, 100
\* and 1000 m2.
C13_PanelCount ==
    (/\ PvReturned
     /\ pv_cfg.roof_area > 0
     /\ pv_cfg.panel_width > 0
     /\ pv_cfg.panel_height > 0
     /\ pv_cfg.spacing_factor >= 0) =>
        LET n    == pv_out.num_panels
            unit == pv_cfg.panel_width * pv_cfg.panel_height
                        * (10 + pv_cfg.spacing_factor)
        IN  /\ n * unit <= pv_cfg.roof_area * 10
            /\ pv_cfg.roof_area * 10 < (n + 1) * unit
            /\ pv_out.system_capacity_kw =
                  n * pv_cfg.panel_width * pv_cfg.panel_height
                    * pv_cfg.efficiency
            /\ (/\ pv_cfg.panel_width = 17
                /\ pv_cfg.panel_height = 10
                /\ pv_cfg.spacing_factor = 2) =>
                  /\ pv_cfg.roof_area = 1000 => n = 4
                  /\ pv_cfg.roof_area = 10000 => n = 49
                  /\ pv_cfg.roof_area = 100000 => n = 490

\* C13 witness: 1000 m2 of roof took 490 panels of 1.7 x 1.0 m, 166.6 kW.
C13_Witness ==
    /\ PvReturned
    /\ pv_cfg.roof_area = 100000
    /\ pv_cfg.spacing_factor = 2
    /\ pv_out.num_panels = 490
    /\ pv_out.system_capacity_kw = 1666000

\* The required columns the frame lacks; either name of the zenith and of
\* the azimuth column is accepted.
MissingColumns ==
    {c \in {"ghi", "dni", "dhi", "temperature", "wind_speed"} :
        c \notin pv_cols}
    \cup (IF {"apparent_zenith", "zenith"} \cap pv_cols = {}
          THEN {"apparent_zenith", "zenith"} ELSE {})
    \cup (IF {"azimuth", "solar_azimuth"} \cap pv_cols = {}
          THEN {"azimuth", "solar_azimuth"} ELSE {})

\* C14 as stated: a frame that lacks a required column aborts with the error
\* 'Missing required column: <name>' naming a missing column and returns no
\* result; a frame with every required column (one of the two zenith and of
\* the two azimuth names is enough) never raises it.
C14_MissingColumnError ==
    PvDone =>
        /\ MissingColumns # {} =>
              /\ pv_pc = "raised"
              /\ pv_out.error = "ValueError"
              /\ pv_out.message = "Missing required column: "
              /\ pv_out.column \in MissingColumns
        /\ MissingColumns = {} => pv_pc = "returned"

\* C15 as stated: a call with roof_area <= 0 aborts with an error and
\* returns no result.
C15_NonPositiveRoofRejected ==
    (PvDone /\ pv_cfg.roof_area <= 0) => pv_pc = "raised"

\* C16: in the frame of get_solar_position ghi = max(0, influx_direct *
\* cos(zenith) + influx_diffuse) >= 0 at every timestamp, derived dni and dhi
\* are max(0, influx_direct) and max(0, influx_diffuse); and the ghi, dni
\* and dhi handed to the plane-of-array model are >= 0 for every hour, also
\* when an existing dni or dhi column holds negative values.
C16_IrradianceNonNegative ==
    /\ FromFeed =>
          \A h \in DOMAIN pv_in :
              LET row == pv_feed.rows[h]
                  sum == (row.influx_direct * CosMilli(row.zenith)) \div 1000
                             + row.influx_diffuse
              IN  /\ pv_in[h].ghi = IF sum < 0 THEN 0 ELSE sum
                  /\ pv_in[h].ghi >= 0
                  /\ "dni" \notin pv_feed.columns =>
                        pv_in[h].dni = IF row.influx_direct < 0 THEN 0
                                       ELSE row.influx_direct
                  /\ "dhi" \notin pv_feed.columns =>
                        pv_in[h].dhi = IF row.influx_diffuse < 0 THEN 0
                                       ELSE row.influx_diffuse
    /\ PvReturned =>
          \A h \in DOMAIN pv_in :
              /\ pv_out.poa_inputs[h].ghi >= 0
              /\ pv_out.poa_inputs[h].dni >= 0
              /\ pv_out.poa_inputs[h].dhi >= 0

\* C16 witness: the sun was below the horizon with a positive direct influx,
\* ghi was clipped to 0, and the negative value of an existing dni column
\* reached calculate_pv_production, which handed 0 to the model.
C16_Witness ==
    /\ PvReturned
    /\ FromFeed
    /\ "dni" \in pv_feed.columns
    /\ \E h \in DOMAIN pv_in :
          /\ pv_feed.rows[h].zenith = 120
          /\ pv_feed.rows[h].influx_direct = 800
          /\ pv_in[h].ghi = 0
          /\ pv_in[h].dni < 0
          /\ pv_out.poa_inputs[h].dni = 0

-----------------------------------------------------------------------------
(* Properties of the scenario results                                      *)

\* The arguments a scenario is said to run with: the perturbed values, no
\* nested scenarios, every other argument as the caller supplied it.
PerturbedArgs(a, kind) ==
    IF kind = "optimistic"
    THEN [a EXCEPT !.cost_per_watt = (@ * 9) \div 10,
                   !.electricity_price = (@ * 11) \div 10,
                   !.annual_price_increase = (@ * 12) \div 10,
                   !.discount_rate = (@ * 9) \div 10,
                   !.create_scenarios = FALSE]
    ELSE [a EXCEPT !.cost_per_watt = (@ * 11) \div 10,
                   !.electricity_price = (@ * 9) \div 10,
                   !.annual_price_increase = (@ * 8) \div 10,
                   !.discount_rate = (@ * 11) \div 10,
                   !.create_scenarios = FALSE]

\* What a direct call with create_scenarios = False returns.
DirectResult(a) ==
    FinResult([args |-> a, pc |-> "return", body |-> FinBody(a),
               scenarios |-> <<>>])

\* C17 as stated: each stored scenario equals the result of a direct call
\* with create_scenarios = False, the perturbed values and every other
\* argument (lifetime included) as the caller supplied it; its savings
\* series has the caller's lifetime as length and its payback period is at
\* most the caller's lifetime.
C17_ScenarioEqualsDirectCall ==
    (FinReturned /\ f_args.create_scenarios) =>
        \A kind \in {"optimistic", "pessimistic"} :
            /\ f_result.scenarios[kind] = DirectResult(PerturbedArgs(f_args, kind))
            /\ Len(f_result.scenarios[kind].yearly_savings) = f_args.lifetime
            /\ f_result.scenarios[kind].payback_period_years <= f_args.lifetime

-----------------------------------------------------------------------------
(* Properties of the whole estimator call                                  *)

EstimateReturned == est_pc = "returned"

ClassDefaults ==
    [c \in {"residential", "commercial", "industrial_lv", "industrial_mv",
            "industrial_hv", "street_light"} |->
        CASE c = "residential"   -> 250
          [] c = "commercial"    -> 500
          [] c = "industrial_lv" -> 1000
          [] c = "industrial_mv" -> 5000
          [] c = "industrial_hv" -> 10000
          [] c = "street_light"  -> 300]

IndustrialClasses == {"industrial_lv", "industrial_mv", "industrial_hv"}

\* The default of the class, an unknown class counting as residential.
ClassDefault(customer_type) ==
    IF customer_type \in DOMAIN ClassDefaults THEN ClassDefaults[customer_type]
    ELSE ClassDefaults["residential"]

\* C18: whenever the consumption estimate computed from the bill is <= 0
\* (bill <= 0 for a flat-rate class, known price <= 0, or an industrial bill
\* not above peak_demand * demand_charge), the returned monthly consumption
\* is the default of the class (250, 500, 1000, 5000, 10000, 300 kWh; an
\* unknown class is treated as residential); so the returned monthly
\* consumption is > 0 for every input and the yearly one is 12 times it.
C18_DefaultWhenNonPositive ==
    EstimateReturned =>
        LET a        == est_args
            monthly  == est_out.estimated_monthly_consumption_kwh
            yearly   == est_out.estimated_yearly_consumption_kwh
            default  == [num |-> ClassDefault(a.customer_type), den |-> 1]
            flat     == a.customer_type \in DOMAIN ClassDefaults \ {"residential"}
            demanded == /\ a.customer_type \in IndustrialClasses
                        /\ a.peak_demand_kw # <<>>
        IN  /\ est_out.before_default.num <= 0 => monthly = default
            /\ (flat /\ a.monthly_bill <= 0) => monthly = default
            /\ (a.electricity_price # <<>> /\ a.electricity_price[1] <= 0) =>
                  monthly = default
            /\ (demanded /\ a.monthly_bill <= a.peak_demand_kw[1] * 5358) =>
                  monthly = default
            /\ monthly.num > 0
            /\ monthly.den > 0
            /\ yearly.num = 12 * monthly.num
            /\ yearly.den = monthly.den

\* C18 witness: a light-industry bill equal to its demand charge (10 kW at
\* 53.58 ETB/kW) left no energy bill, and the default of 1000 kWh a month,
\* 12000 kWh a year, was returned.
C18_Witness ==
    /\ EstimateReturned
    /\ est_args.customer_type = "industrial_lv"
    /\ est_args.electricity_price = <<>>
    /\ est_args.peak_demand_kw = <<10>>
    /\ est_args.monthly_bill = 53580
    /\ est_out.before_default.num = 0
    /\ est_out.estimated_monthly_consumption_kwh = [num |-> 1000, den |-> 1]
    /\ est_out.estimated_yearly_consumption_kwh = [num |-> 12000, den |-> 1]

FlatPrices ==
    [c \in {"commercial", "street_light", "industrial_lv", "industrial_mv",
            "industrial_hv"} |->
        CASE c = "commercial"    -> 212
          [] c = "street_light"  -> 212
          [] c = "industrial_lv" -> 153
          [] c = "industrial_mv" -> 119
          [] c = "industrial_hv" -> 119]

\* C19: with no known price, the consumption of a flat-rate class before the
\* default is bill / flat_price (2.12, 2.12, 1.53, 1.19, 1.19); the demand
\* charge is subtracted only for an industrial class with a peak demand,
\* giving max(0, bill - peak_demand_kw * 53.58) / flat_price; a peak demand
\* given for commercial, street_light or residential changes nothing.
C19_FlatRateConsumption ==
    (EstimateReturned /\ est_args.electricity_price = <<>>) =>
        LET a == est_args
            c == a.customer_type
        IN  /\ c \in DOMAIN FlatPrices =>
                  LET charge == IF c \in IndustrialClasses /\ a.peak_demand_kw # <<>>
                                THEN a.peak_demand_kw[1] * 5358 ELSE 0
                      paid   == IF charge = 0 THEN a.monthly_bill
                                ELSE IF a.monthly_bill - charge < 0 THEN 0
                                ELSE a.monthly_bill - charge
                  IN  est_out.before_default.num * FlatPrices[c]
                          = paid * est_out.before_default.den
            /\ c \in {"commercial", "street_light", "residential"} =>
                  est_out = EstimateConsumptionAndCapacity(
                                [a EXCEPT !.peak_demand_kw = <<>>])

\* C19 witness: a medium-industry bill of 600 ETB with 10 kW of peak demand
\* gave (600 - 535.80) / 1.19 kWh.
C19_Witness ==
    /\ EstimateReturned
    /\ est_args.electricity_price = <<>>
    /\ est_args.customer_type = "industrial_mv"
    /\ est_args.peak_demand_kw = <<10>>
    /\ est_args.monthly_bill = 60000
    /\ est_out.before_default = [num |-> 6420, den |-> 119]

\* C20: recommended_capacity_kw is >= 1.0 and a multiple of 0.5, and when the
\* average A of the two heuristics (daily need d = 0.8 * monthly / 30,
\* A = (d / (0.165 * 24) + d / (4.5 * 0.86)) / 2, so that
\* 2 * A = 58 * monthly / 4257) is >= 1.0, it is a multiple of 0.5 nearest to
\* A: |recommended_capacity_kw - A| <= 0.25.
C20_RecommendedCapacity ==
    EstimateReturned =>
        LET rec     == est_out.recommended_capacity_kw
            monthly == est_out.estimated_monthly_consumption_kwh
            p       == 58 * monthly.num
            q       == 4257 * monthly.den
            halves  == rec \div 50
        IN  /\ rec >= 100
            /\ rec % 50 = 0
            /\ p >= 2 * q =>
                  /\ 2 * (halves * q - p) <= q
                  /\ 2 * (p - halves * q) <= q

\* C20 witness: the commercial default of 500 kWh a month, whose average of
\* 3.41 kW was rounded to 3.5 kW.
C20_Witness ==
    /\ EstimateReturned
    /\ est_out.estimated_monthly_consumption_kwh = [num |-> 500, den |-> 1]
    /\ est_out.recommended_capacity_kw = 350

-----------------------------------------------------------------------------
(* Further properties of project_electricity_price                         *)

UnknownClassReturned ==
    /\ t_pc = "returned"
    /\ t_args.customer_type \notin TariffClasses
    /\ t_args.base_price # <<>>

\* C21: for a class that is not in the tariff table no table lookup is made:
\* the quarterly prices are base_price * 1.0074^j, j = 0 .. 4*years - 1 (the
\* first is base_price itself), yearly figure k is the mean of the quarterly
\* prices 4k .. 4k+3, and nothing depends on the start year and quarter.
C21_UnknownClassFlatSeries ==
    UnknownClassReturned =>
        /\ t_out.raised = "none"
        /\ t_out.increases = <<>>
        /\ t_out.periods = <<>>
        /\ Len(t_out.result) = 4 * t_args.years
        /\ t_out.result[1] = t_args.base_price[1]
        /\ \A j \in 1..(4 * t_args.years - 1) :
              t_out.result[j + 1] = (t_out.result[j] * 10074) \div 10000
        /\ \A k \in 0..(t_args.years - 1) :
              t_out.yearly_prices[k + 1] =
                  t_out.result[4 * k + 1] + t_out.result[4 * k + 2]
                      + t_out.result[4 * k + 3] + t_out.result[4 * k + 4]
        /\ \A y \in {2024, 2027}, q \in 1..4 :
              t_out = ProjectElectricityPrice(
                          [t_args EXCEPT !.current_year = y,
                                         !.current_quarter = q])

\* C21 witness: a class outside the table started in 2026Q3 at 1.63 ETB; the
\* second quarterly price is 1.642 ETB.
C21_Witness ==
    /\ UnknownClassReturned
    /\ t_args.current_year = 2026
    /\ t_args.current_quarter = 3
    /\ t_args.years >= 2
    /\ t_args.base_price = <<1630>>
    /\ t_out.result[1] = 1630
    /\ t_out.result[2] = 1642

\* (year, quarter) lies before 2024Q1.
BeforeSchedule(period) == period[1] < 2024

\* C28 as stated: for every class of the table and every start, also before
\* 2024 and after 2027, the yearly series is non-decreasing in the year
\* index, and every quarterly price of a period before 2024Q1 is at most the
\* schedule's 2024Q1 price.
C28_NonDecreasingSeries ==
    TariffReturned =>
        /\ \A k \in 1..(t_args.years - 1) :
              t_out.yearly_prices[k] <= t_out.yearly_prices[k + 1]
        /\ \A j \in 1..(4 * t_args.years) :
              BeforeSchedule(t_out.periods[j]) =>
                  t_out.result[j] <= t_out.increases[1] * 10

-----------------------------------------------------------------------------
(* Further properties of financial_analysis                                *)

WithScenarios == FinReturned /\ f_args.create_scenarios

\* The same call with annual_price_increase = 10 % and no scenarios.
HigherRateResult ==
    DirectResult([f_args EXCEPT !.annual_price_increase = 1000,
                                !.create_scenarios = FALSE])

\* Series x grows from year 1 to year 2 by a larger factor than series y.
EscalatesFaster(x, y) == x[2] * y[1] > y[2] * x[1]

\* C25 as stated: for a class outside the tariff table the price series
\* escalates at the supplied annual_price_increase: the same call with a
\* higher rate has a higher price (and, with energy, higher savings) in the
\* second year, the optimistic scenario (rate * 1.2) escalates faster than
\* the base case and the pessimistic one (rate * 0.8) slower.
C25_EscalatesAtSuppliedRate ==
    (/\ WithScenarios
     /\ f_args.customer_type \notin TariffClasses
     /\ f_args.lifetime >= 2) =>
        /\ HigherRateResult.yearly_prices_etb[2] > f_result.yearly_prices_etb[2]
        /\ f_args.annual_energy_kwh > 0 =>
              HigherRateResult.yearly_savings[2] > f_result.yearly_savings[2]
        /\ EscalatesFaster(f_result.scenarios["optimistic"].yearly_prices_etb,
                           f_result.yearly_prices_etb)
        /\ EscalatesFaster(f_result.yearly_prices_etb,
                           f_result.scenarios["pessimistic"].yearly_prices_etb)

\* C26 as stated: with a positive base price, energy >= 0 and lifetime 25,
\* in every year the optimistic savings are at least the base savings, which
\* are at least the pessimistic savings, and the yearly prices are ordered
\* the same way.
C26_ScenariosOrdered ==
    (/\ WithScenarios
     /\ f_args.lifetime = DefaultLifetime
     /\ f_args.electricity_price > 0
     /\ f_args.annual_energy_kwh >= 0) =>
        \A i \in 1..DefaultLifetime :
            /\ f_result.scenarios["optimistic"].yearly_savings[i]
                   >= f_result.yearly_savings[i]
            /\ f_result.yearly_savings[i]
                   >= f_result.scenarios["pessimistic"].yearly_savings[i]
            /\ f_result.scenarios["optimistic"].yearly_prices_etb[i]
                   >= f_result.yearly_prices_etb[i]
            /\ f_result.yearly_prices_etb[i]
                   >= f_result.scenarios["pessimistic"].yearly_prices_etb[i]

NonResidentialClasses == TariffClasses \ {"residential"}

\* C27 as stated: for a known class other than residential the projected
\* series is the same for every base price; the yearly savings of
\* financial_analysis do not depend on electricity_price; and both scenarios
\* have the same yearly savings as the base case.
C27_BasePriceIrrelevant ==
    (/\ WithScenarios
     /\ f_args.customer_type \in NonResidentialClasses) =>
        /\ \A price \in {230, 500, 1000} :
              LET other == DirectResult([f_args EXCEPT
                                            !.electricity_price = price,
                                            !.create_scenarios = FALSE])
              IN  /\ other.yearly_prices_etb = f_result.yearly_prices_etb
                  /\ other.yearly_savings = f_result.yearly_savings
        /\ \A kind \in {"optimistic", "pessimistic"} :
              f_result.scenarios[kind].yearly_savings = f_result.yearly_savings

-----------------------------------------------------------------------------
(* Monotonicity of the estimator in the bill                               *)

\* x <= y for two fractions with positive denominators.
FracLeq(x, y) ==
    IF x.den = y.den THEN x.num <= y.num
    ELSE x.num * y.den <= y.num * x.den

\* The call has returned; it was made without a known price and without a
\* peak demand.
BillOnlyReturned ==
    /\ EstimateReturned
    /\ est_args.electricity_price = <<>>
    /\ est_args.peak_demand_kw = <<>>

\* The bills the model calls the estimator with.
BillValues == {a.monthly_bill : a \in EstimateArgs}

\* What the same call returns for the bill b1.
EstimateForBill(b1) ==
    EstimateConsumptionAndCapacity([est_args EXCEPT !.monthly_bill = b1])

\* The result of the call is at least the result for the bill b1, in the
\* estimated monthly consumption and in the recommended capacity.
AtLeastResultFor(b1) ==
    /\ FracLeq(EstimateForBill(b1).estimated_monthly_consumption_kwh,
               est_out.estimated_monthly_consumption_kwh)
    /\ EstimateForBill(b1).recommended_capacity_kw
           <= est_out.recommended_capacity_kw

\* C29 as stated: with no known price and no peak demand, for any two bills
\* 0 <= b1 <= b2 the estimated monthly consumption and the recommended
\* capacity for b1 are at most those for b2.
C29_MonotoneFromZero ==
    BillOnlyReturned =>
        \A b1 \in BillValues :
            (0 <= b1 /\ b1 <= est_args.monthly_bill) => AtLeastResultFor(b1)

\* C29, amended: the same for any two bills 0 < b1 <= b2 of every class, and
\* for b1 = 0 when the class is billed by the residential brackets
\* (residential or a class outside the tariff data).
C29_MonotoneAbovePositive ==
    BillOnlyReturned =>
        \A b1 \in BillValues :
            (/\ b1 <= est_args.monthly_bill
             /\ \/ 0 < b1
                \/ b1 = 0 /\ EffectiveClass(est_args.customer_type)
                                 = "residential") =>
                AtLeastResultFor(b1)

\* C29 witness: a commercial bill of 600 ETB, whose estimate (about 283 kWh)
\* is above the estimate for the 100 ETB bill and below the 500 kWh that a
\* bill of 0 gives.
C29_Witness ==
    /\ BillOnlyReturned
    /\ est_args.customer_type = "commercial"
    /\ est_args.monthly_bill = 60000
    /\ ~NeedsDefault(est_out.before_default)
    /\ ~FracLeq(est_out.estimated_monthly_consumption_kwh,
                EstimateForBill(10000).estimated_monthly_consumption_kwh)
    /\ ~FracLeq(EstimateForBill(0).estimated_monthly_consumption_kwh,
                est_out.estimated_monthly_consumption_kwh)

-----------------------------------------------------------------------------
(* Further properties of the PV component                                  *)

\* C30 as stated: the wind floor changes only the hours whose input wind
\* speed is <= 0: every hour with a positive input wind speed reaches the
\* cell-temperature model unchanged, whatever the other hours hold.
C30_FloorOnlyNonPositiveHours ==
    PvReturned =>
        \A h \in DOMAIN pv_in :
            pv_in[h].wind_speed > 0 => pv_out.wind_speed[h] = pv_in[h].wind_speed

\* C23 as stated: after get_solar_position the caller's frame has the
\* columns and the values it had before the call.
C23_CallerFrameUnchanged ==
    FromFeed => pv_caller = FrameOfFeed(pv_feed)

\* The tilt the engine is said to use: the supplied one, else the absolute
\* latitude of the site get_solar_position was called for.
SiteTilt ==
    IF pv_cfg.tilt = <<>> THEN Abs(pv_feed.lat) ELSE pv_cfg.tilt[1]

\* The azimuth likewise: 180 for a site at latitude >= 0, else 0.
SiteAzimuth ==
    IF pv_cfg.azimuth = <<>>
    THEN (IF pv_feed.lat >= 0 THEN 180 ELSE 0)
    ELSE pv_cfg.azimuth[1]

\* C24 as stated: on a frame of get_solar_position the engine uses the
\* supplied tilt and azimuth, and without them tilt = |latitude| and
\* azimuth = 180 if latitude >= 0 else 0 for the latitude of the site.
C24_DefaultsFromSiteLatitude ==
    (PvReturned /\ FromFeed) =>
        /\ pv_surface.tilt = SiteTilt
        /\ pv_surface.azimuth = SiteAzimuth

-----------------------------------------------------------------------------
(* Properties of a session                                                 *)

\* What financial_analysis returns for its arguments alone.
FinancialAnalysis(a) ==
    FinResult([args |-> a, pc |-> "return", body |-> FinBody(a),
               scenarios |->
                   IF a.create_scenarios
                   THEN [kind \in {"optimistic", "pessimistic"} |->
                            DirectResult(ScenarioArgs(a, kind))]
                   ELSE <<>>])

\* The result of a logged call as a function of its arguments (and, for
\* calculate_pv_production, of the weather frame handed to it).
ResultOfArguments(call) ==
    CASE call.fn = "project_electricity_price" ->
            ProjectElectricityPrice(call.args)
      [] call.fn = "estimate_consumption_and_capacity" ->
            EstimateConsumptionAndCapacity(call.args)
      [] call.fn = "financial_analysis" ->
            FinancialAnalysis(call.args)
      [] call.fn = "calculate_pv_production" ->
            PvCall(s_frame, call.args)

\* C22: in every sequence of calls of the four functions the result of each
\* call is a function of that call's arguments only: a residential
\* projection without base price uses tier 3 whatever tier an earlier call
\* selected, two calls of the same function with equal arguments (for
\* calculate_pv_production: the same frame and configuration) return equal
\* results.
C22_NoStateBetweenCalls ==
    \A i \in DOMAIN s_log :
        /\ s_log[i].out = ResultOfArguments(s_log[i])
        /\ (/\ s_log[i].fn = "project_electricity_price"
            /\ s_log[i].args.customer_type = "residential"
            /\ s_log[i].args.base_price = <<>>) =>
               s_log[i].out.increases = TierIncreases(3)
        /\ \A j \in DOMAIN s_log :
              (s_log[j].fn = s_log[i].fn /\ s_log[j].args = s_log[i].args) =>
                  s_log[j].out = s_log[i].out

\* C22 witness: a residential projection that selected tier 7, then one
\* without base price that used tier 3 (2.28 ETB/kWh for 2024), then
\* calculate_pv_production twice on the same frame and configuration.
C22_Witness ==
    /\ Len(s_log) = 4
    /\ s_frame.columns = FrameColumns
    /\ s_log[1].fn = "project_electricity_price"
    /\ s_log[1].out.increases = TierIncreases(7)
    /\ s_log[2].fn = "project_electricity_price"
    /\ s_log[2].args.base_price = <<>>
    /\ s_log[2].out.increases = TierIncreases(3)
    /\ s_log[2].out.yearly_prices = <<9120>>
    /\ s_log[3].fn = "calculate_pv_production"
    /\ s_log[4].fn = "calculate_pv_production"
    /\ s_log[3].args = s_log[4].args
    /\ s_log[3].out = s_log[4].out
    /\ s_log[3].out.annual_energy_kwh > 0

=============================================================================
